---- MODULE Spec2Model ----
(***************************************************************************)
(* Supply-chain ledger: the role registry and the item state machine of    *)
(* the SupplyChain contract.  The repository holds two variants of the     *)
(* contract: SupplyChain.sol registers participants by address alone and   *)
(* ships to an address; the second (part_008) registers (address, name,    *)
(* place) and ships to a participant id.  A deployment runs exactly one of *)
(* them; `variant` records which.                                          *)
(*                                                                         *)
(* Identity service: the in-memory UserDatabase and the handlers of        *)
(* authController.ts (challenge, link, verify, multi-wallet management).   *)
(*                                                                         *)
(* Metadata store: the in-memory ProductDatabase and the handlers of       *)
(* productController.ts.  Hybrid service: the client flows that create an  *)
(* item in both stores and link them (part_003, addmed/page.tsx) and the   *)
(* reads that merge ledger data with metadata.                             *)
(***************************************************************************)
EXTENDS Integers, Sequences, FiniteSets, TLC

\* ---------------------------------------------------------------- bounds
\* Spec: one item, two participants per role in SupplyChain.sol.  The id
\* variant lets one address hold every role, so its registry is the product
\* of three lists: one participant per role keeps it explorable.
MaxMedicines == 1
MaxParticipants == 2
MaxParticipantsById == 1
\* SpecItems: two items, one participant per role.
ItemsMaxMedicines == 2
ItemsMaxParticipants == 1
MaxTime == 1
\* SpecAuth: accounts created, nonces drawn, values of new Date().
MaxUsers == 2
MaxNonces == 3
MaxServerTime == 1
\* SpecRace: link-wallet requests in flight.
MaxRequests == 3
\* SpecStore / SpecHybrid: metadata ids drawn, chain ids presented to the
\* metadata store, creation flows started.
MaxProducts == 2
MaxChainIds == 2
MaxFlows == 2
\* SpecLinks: link requests in flight.
MaxChainLinks == 2
\* SpecViews: items on the ledger while merged reads run.
ViewMaxMedicines == 2

\* ------------------------------------------------------------- addresses
Zero == "0x0"
Deployer == "owner"
Callers == {Deployer, "a1", "a2", "a3"}
Address == Callers \cup {Zero}


\* enum STAGE
Manufactured == 0
Packed == 1
ShippedToDistributor == 2
ReceivedByDistributor == 3
ShippedToRetailer == 4
ReceivedByRetailer == 5
Sold == 6

VARIABLES
    variant,            \* "addr" = SupplyChain.sol, "id" = part_008
    Owner,
    medicineCtr, manCtr, disCtr, retCtr,
    MedicineStock,
    MAN, DIS, RET,
    manAddressToId, disAddressToId, retAddressToId,
    blockTimestamp,     \* block.timestamp of the block being mined
    StageUpdated,       \* per item id, the StageUpdated events emitted
    ParticipantRegistered, \* per role, the ParticipantRegistered events emitted
    reverted            \* TRUE iff the last transaction reverted

VARIABLES
    usersById,          \* UserDatabase.usersById: user id -> User
    walletIndex,        \* UserDatabase.walletIndex: wallet address -> user id
    nonceCtr,           \* number of nonces generateNonce has returned
    res,                \* the response to the last request
    linkRequests        \* POST /auth/link-wallet requests received so far

VARIABLES
    products,           \* ProductDatabase.products: internal id -> record
    productIdIndex,     \* ProductDatabase.productIdIndex: chain id -> internal id
    idCtr,              \* number of ids generateId has returned for products
    reply,              \* the response to the last /api/products request
    chainLinks,         \* POST /api/products/:id/link requests received so far
    flows,              \* the creation flows started by clients
    view                \* the merged read in progress

registry == <<manCtr, disCtr, retCtr, MAN, DIS, RET,
              manAddressToId, disAddressToId, retAddressToId,
              ParticipantRegistered>>
ledger == <<medicineCtr, MedicineStock, StageUpdated>>
chain == <<Owner, registry, ledger>>
userDB == <<usersById, walletIndex>>
identity == <<userDB, nonceCtr>>
productDB == <<products, productIdIndex>>
catalog == <<productDB, idCtr, reply, chainLinks>>
server == <<identity, res, linkRequests, catalog>>
client == <<flows, view>>
vars == <<variant, chain, blockTimestamp, reverted, server, client>>

\* The role strings of the ParticipantRegistered event.
Roles == {"Manufacturer", "Distributor", "Retailer"}

\* The all-zero struct a Solidity mapping returns for an unwritten key.
ZeroMedicine ==
    [id |-> 0, manufacturer |-> Zero, distributor |-> Zero, retailer |-> Zero,
     stage |-> Manufactured, createdAt |-> 0, updatedAt |-> 0,
     MANid |-> 0, DISid |-> 0, RETid |-> 0]

\* A mapping is modelled by the function on the keys written so far; reading
\* any other key yields the zero value.
Stock(i) == IF i \in DOMAIN MedicineStock THEN MedicineStock[i] ELSE ZeroMedicine
Participant(m, i) == IF i \in DOMAIN m THEN m[i] ELSE Zero

\* m[k] = v
Put(m, k, v) == [x \in DOMAIN m \cup {k} |-> IF x = k THEN v ELSE m[x]]

Init ==
    /\ variant \in {"addr", "id"}
    /\ Owner = Deployer
    /\ medicineCtr = 0 /\ manCtr = 0 /\ disCtr = 0 /\ retCtr = 0
    /\ MedicineStock = <<>>
    /\ MAN = <<>> /\ DIS = <<>> /\ RET = <<>>
    /\ manAddressToId = [a \in Address |-> 0]
    /\ disAddressToId = [a \in Address |-> 0]
    /\ retAddressToId = [a \in Address |-> 0]
    /\ blockTimestamp = 0
    /\ StageUpdated = <<>>
    /\ ParticipantRegistered = [role \in Roles |-> <<>>]
    /\ reverted = FALSE
    /\ usersById = <<>>
    /\ walletIndex = <<>>
    /\ nonceCtr = 0
    /\ res = [success |-> TRUE, nonce |-> 0]
    /\ linkRequests = <<>>
    /\ products = <<>>
    /\ productIdIndex = <<>>
    /\ idCtr = 0
    /\ reply = [status |-> 200, data |-> [id |-> 0]]
    /\ chainLinks = <<>>
    /\ flows = <<>>
    /\ view = [pc |-> "idle", kind |-> "one", chainIds |-> <<>>,
               onChain |-> <<>>, result |-> <<>>]

\* ------------------------------------------------------------- modifiers
onlyOwner_anyone(sender) == TRUE

onlyOwner(sender) == sender = Owner
onlyManufacturer(sender) == manAddressToId[sender] > 0
onlyDistributor(sender) == disAddressToId[sender] > 0
onlyRetailer(sender) == retAddressToId[sender] > 0

validId(i) == i > 0 /\ i <= medicineCtr

\* A failed require reverts the transaction: nothing is written.
Revert ==
    /\ reverted' = TRUE
    /\ UNCHANGED <<variant, chain, blockTimestamp, server>>

Done == reverted' = FALSE /\ UNCHANGED server

\* emit ParticipantRegistered(role, _address, id, block.timestamp)
EmitRegistered(role, a, id) ==
    ParticipantRegistered' = [ParticipantRegistered EXCEPT ![role] =
        Append(@, [participant |-> a, id |-> id])]

\* ================================================= SupplyChain.sol (addr)
addManufacturer_require(sender, a) ==
    IF ~onlyOwner(sender) THEN "Only owner can call this function"
    ELSE IF a = Zero THEN "Invalid address"
    ELSE IF manAddressToId[a] # 0 THEN "Manufacturer already registered"
    ELSE IF disAddressToId[a] # 0 THEN "Address is already a Distributor"
    ELSE IF retAddressToId[a] # 0 THEN "Address is already a Retailer"
    ELSE ""

addManufacturer(sender, a) ==
    LET e == addManufacturer_require(sender, a) IN
    IF e # "" THEN Revert
    ELSE /\ manCtr' = manCtr + 1
         /\ MAN' = Put(MAN, manCtr + 1, a)
         /\ manAddressToId' = [manAddressToId EXCEPT ![a] = manCtr + 1]
         /\ EmitRegistered("Manufacturer", a, manCtr + 1)
         /\ Done
         /\ UNCHANGED <<variant, Owner, disCtr, retCtr, DIS, RET, disAddressToId,
                        retAddressToId, ledger, blockTimestamp>>

addDistributor_require_ownRoleOnly(sender, a) ==
    IF ~onlyOwner(sender) THEN "Only owner can call this function"
    ELSE IF a = Zero THEN "Invalid address"
    ELSE IF disAddressToId[a] # 0 THEN "Distributor already registered"
    ELSE ""

addDistributor_require(sender, a) ==
    IF ~onlyOwner(sender) THEN "Only owner can call this function"
    ELSE IF a = Zero THEN "Invalid address"
    ELSE IF disAddressToId[a] # 0 THEN "Distributor already registered"
    ELSE IF manAddressToId[a] # 0 THEN "Address is already a Manufacturer"
    ELSE IF retAddressToId[a] # 0 THEN "Address is already a Retailer"
    ELSE ""

addDistributor(sender, a) ==
    LET e == addDistributor_require(sender, a) IN
    IF e # "" THEN Revert
    ELSE /\ disCtr' = disCtr + 1
         /\ DIS' = Put(DIS, disCtr + 1, a)
         /\ disAddressToId' = [disAddressToId EXCEPT ![a] = disCtr + 1]
         /\ EmitRegistered("Distributor", a, disCtr + 1)
         /\ Done
         /\ UNCHANGED <<variant, Owner, manCtr, retCtr, MAN, RET, manAddressToId,
                        retAddressToId, ledger, blockTimestamp>>

addRetailer_require(sender, a) ==
    IF ~onlyOwner(sender) THEN "Only owner can call this function"
    ELSE IF a = Zero THEN "Invalid address"
    ELSE IF retAddressToId[a] # 0 THEN "Retailer already registered"
    ELSE IF manAddressToId[a] # 0 THEN "Address is already a Manufacturer"
    ELSE IF disAddressToId[a] # 0 THEN "Address is already a Distributor"
    ELSE ""

addRetailer(sender, a) ==
    LET e == addRetailer_require(sender, a) IN
    IF e # "" THEN Revert
    ELSE /\ retCtr' = retCtr + 1
         /\ RET' = Put(RET, retCtr + 1, a)
         /\ retAddressToId' = [retAddressToId EXCEPT ![a] = retCtr + 1]
         /\ EmitRegistered("Retailer", a, retCtr + 1)
         /\ Done
         /\ UNCHANGED <<variant, Owner, manCtr, disCtr, MAN, DIS, manAddressToId,
                        disAddressToId, ledger, blockTimestamp>>

addMedicine_require(sender) ==
    IF ~onlyManufacturer(sender)
    THEN "Only registered manufacturers can call this function"
    ELSE ""

addMedicine_staleId(sender) ==
    LET e == addMedicine_require(sender) IN
    IF e # "" THEN Revert
    ELSE /\ medicineCtr' = medicineCtr + 1
         /\ MedicineStock' = Put(MedicineStock, medicineCtr + 1,
                [id |-> medicineCtr, manufacturer |-> sender,
                 distributor |-> Zero, retailer |-> Zero,
                 stage |-> Manufactured,
                 createdAt |-> blockTimestamp, updatedAt |-> blockTimestamp,
                 MANid |-> manAddressToId[sender], DISid |-> 0, RETid |-> 0])
         /\ StageUpdated' = Put(StageUpdated, medicineCtr + 1, <<>>)
         /\ Done
         /\ UNCHANGED <<variant, Owner, registry, blockTimestamp>>

addMedicine(sender) ==
    LET e == addMedicine_require(sender) IN
    IF e # "" THEN Revert
    ELSE /\ medicineCtr' = medicineCtr + 1
         /\ MedicineStock' = Put(MedicineStock, medicineCtr + 1,
                [id |-> medicineCtr + 1, manufacturer |-> sender,
                 distributor |-> Zero, retailer |-> Zero,
                 stage |-> Manufactured,
                 createdAt |-> blockTimestamp, updatedAt |-> blockTimestamp,
                 MANid |-> manAddressToId[sender], DISid |-> 0, RETid |-> 0])
         /\ StageUpdated' = Put(StageUpdated, medicineCtr + 1, <<>>)
         /\ Done
         /\ UNCHANGED <<variant, Owner, registry, blockTimestamp>>

\* The event emitted before the new stage is written.
Emit_oldStage(i, stage, sender) ==
    StageUpdated' = [StageUpdated EXCEPT ![i] =
        Append(@, [stage |-> Stock(i).stage, updatedBy |-> sender])]

\* emit StageUpdated(id, stage, msg.sender, block.timestamp)
Emit(i, stage, sender) ==
    StageUpdated' = [StageUpdated EXCEPT ![i] =
        Append(@, [stage |-> stage, updatedBy |-> sender])]

packMedicine_require_noStage(sender, i) ==
    IF ~onlyManufacturer(sender)
    THEN "Only registered manufacturers can call this function"
    ELSE IF ~validId(i) THEN "Invalid medicine ID"
    ELSE IF Stock(i).manufacturer # sender THEN "Not your product"
    ELSE ""

packMedicine_require(sender, i) ==
    IF ~onlyManufacturer(sender)
    THEN "Only registered manufacturers can call this function"
    ELSE IF ~validId(i) THEN "Invalid medicine ID"
    ELSE IF Stock(i).manufacturer # sender THEN "Not your product"
    ELSE IF Stock(i).stage # Manufactured
    THEN "Medicine must be in Manufactured stage"
    ELSE ""

packMedicine(sender, i) ==
    LET e == packMedicine_require(sender, i) IN
    IF e # "" THEN Revert
    ELSE /\ MedicineStock' = [MedicineStock EXCEPT
                ![i].stage = Packed, ![i].updatedAt = blockTimestamp]
         /\ Emit(i, Packed, sender)
         /\ Done
         /\ UNCHANGED <<variant, Owner, registry, medicineCtr, blockTimestamp>>

shipToDistributor_require_anyAddress(sender, i, d) ==
    IF ~onlyManufacturer(sender)
    THEN "Only registered manufacturers can call this function"
    ELSE IF ~validId(i) THEN "Invalid medicine ID"
    ELSE IF Stock(i).manufacturer # sender THEN "Not your product"
    ELSE IF Stock(i).stage # Packed THEN "Medicine must be Packed first"
    ELSE ""

shipToDistributor_require(sender, i, d) ==
    IF ~onlyManufacturer(sender)
    THEN "Only registered manufacturers can call this function"
    ELSE IF ~validId(i) THEN "Invalid medicine ID"
    ELSE IF Stock(i).manufacturer # sender THEN "Not your product"
    ELSE IF Stock(i).stage # Packed THEN "Medicine must be Packed first"
    ELSE IF ~(disAddressToId[d] > 0) THEN "Invalid distributor address"
    ELSE ""

shipToDistributor(sender, i, d) ==
    LET e == shipToDistributor_require(sender, i, d) IN
    IF e # "" THEN Revert
    ELSE /\ MedicineStock' = [MedicineStock EXCEPT
                ![i].distributor = d, ![i].DISid = disAddressToId[d],
                ![i].stage = ShippedToDistributor,
                ![i].updatedAt = blockTimestamp]
         /\ Emit(i, ShippedToDistributor, sender)
         /\ Done
         /\ UNCHANGED <<variant, Owner, registry, medicineCtr, blockTimestamp>>

receiveByDistributor_require_anyDistributor(sender, i) ==
    IF ~onlyDistributor(sender)
    THEN "Only registered distributors can call this function"
    ELSE IF ~validId(i) THEN "Invalid medicine ID"
    ELSE IF Stock(i).stage # ShippedToDistributor
    THEN "Medicine not shipped to you yet"
    ELSE ""

receiveByDistributor_require(sender, i) ==
    IF ~onlyDistributor(sender)
    THEN "Only registered distributors can call this function"
    ELSE IF ~validId(i) THEN "Invalid medicine ID"
    ELSE IF Stock(i).distributor # sender THEN "Not assigned to you"
    ELSE IF Stock(i).stage # ShippedToDistributor
    THEN "Medicine not shipped to you yet"
    ELSE ""

receiveByDistributor(sender, i) ==
    LET e == receiveByDistributor_require(sender, i) IN
    IF e # "" THEN Revert
    ELSE /\ MedicineStock' = [MedicineStock EXCEPT
                ![i].stage = ReceivedByDistributor,
                ![i].updatedAt = blockTimestamp]
         /\ Emit(i, ReceivedByDistributor, sender)
         /\ Done
         /\ UNCHANGED <<variant, Owner, registry, medicineCtr, blockTimestamp>>

shipToRetailer_require_reship(sender, i, r) ==
    IF ~onlyDistributor(sender)
    THEN "Only registered distributors can call this function"
    ELSE IF ~validId(i) THEN "Invalid medicine ID"
    ELSE IF Stock(i).distributor # sender THEN "Not your shipment"
    ELSE IF Stock(i).stage < ReceivedByDistributor THEN "Must receive first"
    ELSE IF ~(retAddressToId[r] > 0) THEN "Invalid retailer address"
    ELSE ""

shipToRetailer_require(sender, i, r) ==
    IF ~onlyDistributor(sender)
    THEN "Only registered distributors can call this function"
    ELSE IF ~validId(i) THEN "Invalid medicine ID"
    ELSE IF Stock(i).distributor # sender THEN "Not your shipment"
    ELSE IF Stock(i).stage # ReceivedByDistributor THEN "Must receive first"
    ELSE IF ~(retAddressToId[r] > 0) THEN "Invalid retailer address"
    ELSE ""

shipToRetailer(sender, i, r) ==
    LET e == shipToRetailer_require(sender, i, r) IN
    IF e # "" THEN Revert
    ELSE /\ MedicineStock' = [MedicineStock EXCEPT
                ![i].retailer = r, ![i].RETid = retAddressToId[r],
                ![i].stage = ShippedToRetailer,
                ![i].updatedAt = blockTimestamp]
         /\ Emit(i, ShippedToRetailer, sender)
         /\ Done
         /\ UNCHANGED <<variant, Owner, registry, medicineCtr, blockTimestamp>>

receiveByRetailer_require(sender, i) ==
    IF ~onlyRetailer(sender)
    THEN "Only registered retailers can call this function"
    ELSE IF ~validId(i) THEN "Invalid medicine ID"
    ELSE IF Stock(i).retailer # sender THEN "Not assigned to you"
    ELSE IF Stock(i).stage # ShippedToRetailer
    THEN "Medicine not shipped to you yet"
    ELSE ""

receiveByRetailer(sender, i) ==
    LET e == receiveByRetailer_require(sender, i) IN
    IF e # "" THEN Revert
    ELSE /\ MedicineStock' = [MedicineStock EXCEPT
                ![i].stage = ReceivedByRetailer,
                ![i].updatedAt = blockTimestamp]
         /\ Emit(i, ReceivedByRetailer, sender)
         /\ Done
         /\ UNCHANGED <<variant, Owner, registry, medicineCtr, blockTimestamp>>

sellMedicine_require_noStage(sender, i) ==
    IF ~onlyRetailer(sender)
    THEN "Only registered retailers can call this function"
    ELSE IF ~validId(i) THEN "Invalid medicine ID"
    ELSE IF Stock(i).retailer # sender THEN "Not your product"
    ELSE IF Stock(i).stage < ReceivedByRetailer THEN "Must receive first"
    ELSE ""

sellMedicine_require(sender, i) ==
    IF ~onlyRetailer(sender)
    THEN "Only registered retailers can call this function"
    ELSE IF ~validId(i) THEN "Invalid medicine ID"
    ELSE IF Stock(i).retailer # sender THEN "Not your product"
    ELSE IF Stock(i).stage # ReceivedByRetailer THEN "Must receive first"
    ELSE ""

sellMedicine(sender, i) ==
    LET e == sellMedicine_require(sender, i) IN
    IF e # "" THEN Revert
    ELSE /\ MedicineStock' = [MedicineStock EXCEPT
                ![i].stage = Sold, ![i].updatedAt = blockTimestamp]
         /\ Emit(i, Sold, sender)
         /\ Done
         /\ UNCHANGED <<variant, Owner, registry, medicineCtr, blockTimestamp>>

\* ================================================== part_008 (id variant)
\* Registration takes (address, name, place); name and place are stored in
\* the participant struct and read by no guard, so only the address is kept.
addManufacturer_p8_require(sender, a) ==
    IF ~onlyOwner(sender) THEN "Only owner can call this function"
    ELSE IF manAddressToId[a] # 0 THEN "Manufacturer already registered"
    ELSE ""

addManufacturer_p8(sender, a) ==
    LET e == addManufacturer_p8_require(sender, a) IN
    IF e # "" THEN Revert
    ELSE /\ manCtr' = manCtr + 1
         /\ MAN' = Put(MAN, manCtr + 1, a)
         /\ manAddressToId' = [manAddressToId EXCEPT ![a] = manCtr + 1]
         /\ EmitRegistered("Manufacturer", a, manCtr + 1)
         /\ Done
         /\ UNCHANGED <<variant, Owner, disCtr, retCtr, DIS, RET, disAddressToId,
                        retAddressToId, ledger, blockTimestamp>>

addDistributor_p8_require(sender, a) ==
    IF ~onlyOwner(sender) THEN "Only owner can call this function"
    ELSE IF disAddressToId[a] # 0 THEN "Distributor already registered"
    ELSE ""

addDistributor_p8(sender, a) ==
    LET e == addDistributor_p8_require(sender, a) IN
    IF e # "" THEN Revert
    ELSE /\ disCtr' = disCtr + 1
         /\ DIS' = Put(DIS, disCtr + 1, a)
         /\ disAddressToId' = [disAddressToId EXCEPT ![a] = disCtr + 1]
         /\ EmitRegistered("Distributor", a, disCtr + 1)
         /\ Done
         /\ UNCHANGED <<variant, Owner, manCtr, retCtr, MAN, RET, manAddressToId,
                        retAddressToId, ledger, blockTimestamp>>

addRetailer_p8_require(sender, a) ==
    IF ~onlyOwner(sender) THEN "Only owner can call this function"
    ELSE IF retAddressToId[a] # 0 THEN "Retailer already registered"
    ELSE ""

addRetailer_p8(sender, a) ==
    LET e == addRetailer_p8_require(sender, a) IN
    IF e # "" THEN Revert
    ELSE /\ retCtr' = retCtr + 1
         /\ RET' = Put(RET, retCtr + 1, a)
         /\ retAddressToId' = [retAddressToId EXCEPT ![a] = retCtr + 1]
         /\ EmitRegistered("Retailer", a, retCtr + 1)
         /\ Done
         /\ UNCHANGED <<variant, Owner, manCtr, disCtr, MAN, DIS, manAddressToId,
                        disAddressToId, ledger, blockTimestamp>>

addMedicine_p8(sender) ==
    IF ~onlyManufacturer(sender) THEN Revert
    ELSE /\ medicineCtr' = medicineCtr + 1
         /\ MedicineStock' = Put(MedicineStock, medicineCtr + 1,
                [id |-> medicineCtr + 1, manufacturer |-> sender,
                 distributor |-> Zero, retailer |-> Zero,
                 stage |-> Manufactured,
                 createdAt |-> blockTimestamp, updatedAt |-> blockTimestamp,
                 MANid |-> manAddressToId[sender], DISid |-> 0, RETid |-> 0])
         /\ StageUpdated' = Put(StageUpdated, medicineCtr + 1, <<>>)
         /\ Done
         /\ UNCHANGED <<variant, Owner, registry, blockTimestamp>>

pack_require(sender, i) ==
    IF ~onlyManufacturer(sender)
    THEN "Only registered manufacturers can call this function"
    ELSE IF ~validId(i) THEN "Invalid medicine ID"
    ELSE IF Stock(i).stage # Manufactured
    THEN "Medicine must be in Manufactured stage"
    ELSE IF Stock(i).manufacturer # sender
    THEN "Only the manufacturer who created this can pack it"
    ELSE ""

pack(sender, i) ==
    LET e == pack_require(sender, i) IN
    IF e # "" THEN Revert
    ELSE /\ MedicineStock' = [MedicineStock EXCEPT
                ![i].stage = Packed, ![i].updatedAt = blockTimestamp]
         /\ Emit(i, Packed, sender)
         /\ Done
         /\ UNCHANGED <<variant, Owner, registry, medicineCtr, blockTimestamp>>

shipToDistributor_p8_require(sender, i, did) ==
    IF ~onlyManufacturer(sender)
    THEN "Only registered manufacturers can call this function"
    ELSE IF ~validId(i) THEN "Invalid medicine ID"
    ELSE IF Stock(i).stage # Packed THEN "Medicine must be in Packed stage"
    ELSE IF Stock(i).manufacturer # sender
    THEN "Only the manufacturer who created this can ship it"
    ELSE IF ~(did > 0 /\ did <= disCtr) THEN "Invalid distributor ID"
    ELSE ""

shipToDistributor_p8(sender, i, did) ==
    LET e == shipToDistributor_p8_require(sender, i, did) IN
    IF e # "" THEN Revert
    ELSE /\ MedicineStock' = [MedicineStock EXCEPT
                ![i].stage = ShippedToDistributor,
                ![i].distributor = Participant(DIS, did), ![i].DISid = did,
                ![i].updatedAt = blockTimestamp]
         /\ Emit(i, ShippedToDistributor, sender)
         /\ Done
         /\ UNCHANGED <<variant, Owner, registry, medicineCtr, blockTimestamp>>

receiveByDistributor_p8_require(sender, i) ==
    IF ~onlyDistributor(sender)
    THEN "Only registered distributors can call this function"
    ELSE IF ~validId(i) THEN "Invalid medicine ID"
    ELSE IF Stock(i).stage # ShippedToDistributor
    THEN "Medicine must be in ShippedToDistributor stage"
    ELSE IF Stock(i).distributor # sender
    THEN "Only the assigned distributor can receive this"
    ELSE ""

receiveByDistributor_p8(sender, i) ==
    LET e == receiveByDistributor_p8_require(sender, i) IN
    IF e # "" THEN Revert
    ELSE /\ MedicineStock' = [MedicineStock EXCEPT
                ![i].stage = ReceivedByDistributor,
                ![i].updatedAt = blockTimestamp]
         /\ Emit(i, ReceivedByDistributor, sender)
         /\ Done
         /\ UNCHANGED <<variant, Owner, registry, medicineCtr, blockTimestamp>>

shipToRetailer_p8_require(sender, i, rid) ==
    IF ~onlyDistributor(sender)
    THEN "Only registered distributors can call this function"
    ELSE IF ~validId(i) THEN "Invalid medicine ID"
    ELSE IF Stock(i).stage # ReceivedByDistributor
    THEN "Medicine must be in ReceivedByDistributor stage"
    ELSE IF Stock(i).distributor # sender
    THEN "Only the assigned distributor can ship this"
    ELSE IF ~(rid > 0 /\ rid <= retCtr) THEN "Invalid retailer ID"
    ELSE ""

shipToRetailer_p8(sender, i, rid) ==
    LET e == shipToRetailer_p8_require(sender, i, rid) IN
    IF e # "" THEN Revert
    ELSE /\ MedicineStock' = [MedicineStock EXCEPT
                ![i].stage = ShippedToRetailer,
                ![i].retailer = Participant(RET, rid), ![i].RETid = rid,
                ![i].updatedAt = blockTimestamp]
         /\ Emit(i, ShippedToRetailer, sender)
         /\ Done
         /\ UNCHANGED <<variant, Owner, registry, medicineCtr, blockTimestamp>>

receiveByRetailer_p8_require(sender, i) ==
    IF ~onlyRetailer(sender)
    THEN "Only registered retailers can call this function"
    ELSE IF ~validId(i) THEN "Invalid medicine ID"
    ELSE IF Stock(i).stage # ShippedToRetailer
    THEN "Medicine must be in ShippedToRetailer stage"
    ELSE IF Stock(i).retailer # sender
    THEN "Only the assigned retailer can receive this"
    ELSE ""

receiveByRetailer_p8(sender, i) ==
    LET e == receiveByRetailer_p8_require(sender, i) IN
    IF e # "" THEN Revert
    ELSE /\ MedicineStock' = [MedicineStock EXCEPT
                ![i].stage = ReceivedByRetailer,
                ![i].updatedAt = blockTimestamp]
         /\ Emit(i, ReceivedByRetailer, sender)
         /\ Done
         /\ UNCHANGED <<variant, Owner, registry, medicineCtr, blockTimestamp>>

sell_require(sender, i) ==
    IF ~onlyRetailer(sender)
    THEN "Only registered retailers can call this function"
    ELSE IF ~validId(i) THEN "Invalid medicine ID"
    ELSE IF Stock(i).stage # ReceivedByRetailer
    THEN "Medicine must be in ReceivedByRetailer stage"
    ELSE IF Stock(i).retailer # sender
    THEN "Only the assigned retailer can sell this"
    ELSE ""

sell(sender, i) ==
    LET e == sell_require(sender, i) IN
    IF e # "" THEN Revert
    ELSE /\ MedicineStock' = [MedicineStock EXCEPT
                ![i].stage = Sold, ![i].updatedAt = blockTimestamp]
         /\ Emit(i, Sold, sender)
         /\ Done
         /\ UNCHANGED <<variant, Owner, registry, medicineCtr, blockTimestamp>>

\* block.timestamp never decreases from one block to the next.
mineBlock ==
    /\ blockTimestamp < MaxTime
    /\ blockTimestamp' = blockTimestamp + 1
    /\ UNCHANGED <<variant, chain, reverted, server, client>>

\* Every transaction any account can send, with the counters capped.
Calls(maxMed, maxPart, maxPartById) ==
    \/ \E s \in Callers, a \in Address :
          variant = "addr" /\ manCtr < maxPart /\ addManufacturer(s, a)
    \/ \E s \in Callers, a \in Address :
          variant = "addr" /\ disCtr < maxPart /\ addDistributor(s, a)
    \/ \E s \in Callers, a \in Address :
          variant = "addr" /\ retCtr < maxPart /\ addRetailer(s, a)
    \/ \E s \in Callers :
          variant = "addr" /\ medicineCtr < maxMed /\ addMedicine(s)
    \/ \E s \in Callers, i \in 0..maxMed :
          variant = "addr" /\ packMedicine(s, i)
    \/ \E s \in Callers, i \in 0..maxMed, d \in Address :
          variant = "addr" /\ shipToDistributor(s, i, d)
    \/ \E s \in Callers, i \in 0..maxMed :
          variant = "addr" /\ receiveByDistributor(s, i)
    \/ \E s \in Callers, i \in 0..maxMed, r \in Address :
          variant = "addr" /\ shipToRetailer(s, i, r)
    \/ \E s \in Callers, i \in 0..maxMed :
          variant = "addr" /\ receiveByRetailer(s, i)
    \/ \E s \in Callers, i \in 0..maxMed :
          variant = "addr" /\ sellMedicine(s, i)
    \/ \E s \in Callers, a \in Address :
          variant = "id" /\ manCtr < maxPartById /\ addManufacturer_p8(s, a)
    \/ \E s \in Callers, a \in Address :
          variant = "id" /\ disCtr < maxPartById /\ addDistributor_p8(s, a)
    \/ \E s \in Callers, a \in Address :
          variant = "id" /\ retCtr < maxPartById /\ addRetailer_p8(s, a)
    \/ \E s \in Callers :
          variant = "id" /\ medicineCtr < maxMed /\ addMedicine_p8(s)
    \/ \E s \in Callers, i \in 0..maxMed :
          variant = "id" /\ pack(s, i)
    \/ \E s \in Callers, i \in 0..maxMed, d \in 0..maxPartById :
          variant = "id" /\ shipToDistributor_p8(s, i, d)
    \/ \E s \in Callers, i \in 0..maxMed :
          variant = "id" /\ receiveByDistributor_p8(s, i)
    \/ \E s \in Callers, i \in 0..maxMed, r \in 0..maxPartById :
          variant = "id" /\ shipToRetailer_p8(s, i, r)
    \/ \E s \in Callers, i \in 0..maxMed :
          variant = "id" /\ receiveByRetailer_p8(s, i)
    \/ \E s \in Callers, i \in 0..maxMed :
          variant = "id" /\ sell(s, i)

Next ==
    \/ Calls(MaxMedicines, MaxParticipants, MaxParticipantsById) /\ UNCHANGED client
    \/ mineBlock

NextItems ==
    \/ Calls(ItemsMaxMedicines, ItemsMaxParticipants, ItemsMaxParticipants)
            /\ UNCHANGED client
    \/ mineBlock

Spec == Init /\ [][Next]_vars

SpecItems == Init /\ [][NextItems]_vars

\* ------------------------------------------------------------- fairness
\* The transaction of this step moves item i one stage on: the call of its
\* creator, bound distributor or bound retailer that the stage asks for.
Advance(i) ==
    /\ Next
    /\ i \in DOMAIN MedicineStock
    /\ MedicineStock'[i].stage = MedicineStock[i].stage + 1

\* Each custodian keeps sending the call its item waits for.
SpecLive ==
    Init /\ [][Next]_vars /\ \A i \in 1..MaxMedicines : WF_vars(Advance(i))

\* ======================================================================
\* Identity service (authController.ts over UserDatabase)
\* ======================================================================
\* Wallet addresses in lower case, and the forms a client may send: "0xA" is
\* the mixed-case spelling of "0xa".
Wallets == {"0xa", "0xb", "0xc"}
RawAddresses == Wallets \cup {"0xA"}
toLowerCase(a) == IF a = "0xA" THEN "0xa" ELSE a

\* The address ecrecover yields for a signature over another message: a
\* pseudo-random address whose key nobody holds.
Unowned == "0xf"

\* createSignMessage(nonce, action): the text is a fixed template around the
\* action and the nonce.
createSignMessage(nonce, action) ==
    [action |-> action, nonce |-> nonce, address |-> ""]

\* `Link wallet ${addressToLink} to ChainGuard account`
LinkMessage(addressToLink) ==
    [action |-> "Link wallet", nonce |-> 0, address |-> addressToLink]

Challenges == {createSignMessage(n, "link-wallet") : n \in 1..MaxNonces}

\* A personal_sign signature by wallet w over message m, and a string that
\* is no signature at all.
Sign(w, m) == [signer |-> w, message |-> m]
Malformed == [signer |-> "malformed", message |-> LinkMessage("")]

\* The <<message, signature>> pairs sent to /auth/link and /auth/verify for
\* address a.  The message is a challenge or the link message of a; the
\* signature is malformed, or by any wallet over the message presented, or
\* by the wallet itself over another message.
OtherMessage(m) ==
    IF m = createSignMessage(1, "link-wallet")
    THEN createSignMessage(2, "link-wallet")
    ELSE createSignMessage(1, "link-wallet")
Presented(a) ==
    LET messages == Challenges \cup {LinkMessage(a)} IN
    {<<m, Malformed>> : m \in messages}
        \cup {<<m, Sign(w, m)>> : m \in messages, w \in Wallets}
        \cup {<<m, Sign(toLowerCase(a), OtherMessage(m))>> : m \in messages}

\* The signatures sent to /auth/link-wallet for address a: malformed, or by
\* any wallet over the link message of a, or by the wallet itself over the
\* link message of its lower-case spelling or over a challenge.
LinkSignatures(a) ==
    {Malformed}
        \cup {Sign(w, LinkMessage(a)) : w \in Wallets}
        \cup {Sign(toLowerCase(a), LinkMessage(toLowerCase(a))),
              Sign(toLowerCase(a), createSignMessage(1, "link-wallet"))}

\* ethers.verifyMessage(message, signature): throws on a malformed signature,
\* otherwise recovers the signer if the signature is over this message and
\* an unrelated address if not.
verifyMessage(message, signature) ==
    IF signature = Malformed THEN "throw"
    ELSE IF signature.message = message THEN signature.signer
    ELSE Unowned

\* UserProfile: a key that is absent holds "".
Absent == ""
EmptyProfile == [name |-> Absent]
ProfileInputs == {EmptyProfile, [name |-> "n1"]}
\* { ...p, ...q }
Spread(p, q) == [k \in DOMAIN p |-> IF q[k] # Absent THEN q[k] ELSE p[k]]

RoleInputs == {Absent, "manufacturer"}

\* Values of new Date(); 0 stands for an undefined date.
Times == 1..MaxServerTime

NoUser ==
    [id |-> 0, primaryWallet |-> "", linkedWallets |-> <<>>, nonce |-> 0,
     role |-> "", profile |-> EmptyProfile, lastLoginAt |-> 0]

UserIds == DOMAIN usersById

\* UserDatabase lookups
findByWallet(walletAddress) ==
    IF toLowerCase(walletAddress) \in DOMAIN walletIndex
    THEN usersById[walletIndex[toLowerCase(walletAddress)]]
    ELSE NoUser

findById(id) == IF id \in UserIds THEN usersById[id] ELSE NoUser

isWalletTaken(walletAddress) == toLowerCase(walletAddress) \in DOMAIN walletIndex

\* UserDatabase.update: usersById after { ...user, ...updates } is stored
\* under the id of the user owning walletAddress.
update(walletAddress, updates) ==
    LET user == findByWallet(walletAddress) IN
    IF user = NoUser THEN usersById
    ELSE [usersById EXCEPT ![user.id] =
            [f \in DOMAIN user |->
                IF f \in DOMAIN updates THEN updates[f] ELSE user[f]]]

\* An ApiError is thrown before anything was written.
Throw ==
    /\ res' = [success |-> FALSE, nonce |-> 0]
    /\ UNCHANGED <<variant, chain, blockTimestamp, reverted, identity>>

Reply(nonce) ==
    /\ res' = [success |-> TRUE, nonce |-> nonce]
    /\ UNCHANGED <<variant, chain, blockTimestamp, reverted>>

getNonce_alwaysFresh(walletAddress) ==
    LET normalizedAddress == toLowerCase(walletAddress)
        user == findByWallet(normalizedAddress)
    IN  IF user = NoUser
        THEN LET id == Len(usersById) + 1
                 newUser ==
                    [id |-> id, primaryWallet |-> normalizedAddress,
                     linkedWallets |->
                        <<[address |-> normalizedAddress, isPrimary |-> TRUE]>>,
                     nonce |-> nonceCtr + 1, role |-> "unregistered",
                     profile |-> EmptyProfile, lastLoginAt |-> 0]
             IN  /\ nonceCtr' = nonceCtr + 1
                 /\ usersById' = Append(usersById, newUser)
                 /\ walletIndex' = Put(walletIndex, normalizedAddress, id)
                 /\ Reply(newUser.nonce)
        ELSE /\ nonceCtr' = nonceCtr + 1
             /\ usersById' = update(normalizedAddress, [nonce |-> nonceCtr + 1])
             /\ UNCHANGED walletIndex
             /\ Reply(nonceCtr + 1)

\* GET /api/auth/nonce/:walletAddress
getNonce(walletAddress) ==
    LET normalizedAddress == toLowerCase(walletAddress)
        user == findByWallet(normalizedAddress)
    IN  IF user = NoUser
        THEN LET id == Len(usersById) + 1
                 newUser ==
                    [id |-> id, primaryWallet |-> normalizedAddress,
                     linkedWallets |->
                        <<[address |-> normalizedAddress, isPrimary |-> TRUE]>>,
                     nonce |-> nonceCtr + 1, role |-> "unregistered",
                     profile |-> EmptyProfile, lastLoginAt |-> 0]
             IN  /\ nonceCtr' = nonceCtr + 1
                 /\ usersById' = Append(usersById, newUser)
                 /\ walletIndex' = Put(walletIndex, normalizedAddress, id)
                 /\ Reply(newUser.nonce)
        ELSE /\ UNCHANGED identity
             /\ Reply(user.nonce)

\* POST /api/auth/link: 0 if every check passes, else the status thrown.
linkWallet_check(walletAddress, signature, message) ==
    LET normalizedAddress == toLowerCase(walletAddress)
        user == findByWallet(normalizedAddress)
    IN  IF user = NoUser THEN 400
        ELSE IF message # createSignMessage(user.nonce, "link-wallet") THEN 400
        ELSE IF verifyMessage(message, signature) = "throw" THEN 400
        ELSE IF toLowerCase(verifyMessage(message, signature)) # normalizedAddress
             THEN 401
        ELSE 0

linkWallet_keepNonce(walletAddress, signature, message, profile, now) ==
    LET normalizedAddress == toLowerCase(walletAddress)
        user == findByWallet(normalizedAddress)
    IN  IF linkWallet_check(walletAddress, signature, message) # 0 THEN Throw
        ELSE /\ usersById' = update(normalizedAddress,
                    [lastLoginAt |-> now,
                     profile |-> Spread(user.profile, profile)])
             /\ UNCHANGED <<walletIndex, nonceCtr>>
             /\ Reply(0)

linkWallet_rotateFirst(walletAddress, signature, message, profile, now) ==
    LET normalizedAddress == toLowerCase(walletAddress)
        user == findByWallet(normalizedAddress)
    IN  IF user = NoUser THEN Throw
        ELSE /\ nonceCtr' = nonceCtr + 1
             /\ usersById' = update(normalizedAddress, [nonce |-> nonceCtr + 1])
             /\ UNCHANGED walletIndex
             /\ res' = [success |-> linkWallet_check(walletAddress, signature, message) = 0,
                        nonce |-> 0]
             /\ UNCHANGED <<variant, chain, blockTimestamp, reverted>>

linkWallet(walletAddress, signature, message, profile, now) ==
    LET normalizedAddress == toLowerCase(walletAddress)
        user == findByWallet(normalizedAddress)
    IN  IF linkWallet_check(walletAddress, signature, message) # 0 THEN Throw
        ELSE /\ nonceCtr' = nonceCtr + 1
             /\ usersById' = update(normalizedAddress,
                    [nonce |-> nonceCtr + 1, lastLoginAt |-> now,
                     profile |-> Spread(user.profile, profile)])
             /\ UNCHANGED walletIndex
             /\ Reply(0)

\* POST /api/auth/verify
verifySignature_check(walletAddress, signature, message) ==
    LET normalizedAddress == toLowerCase(walletAddress)
        user == findByWallet(normalizedAddress)
    IN  IF user = NoUser THEN 404
        ELSE IF verifyMessage(message, signature) = "throw" THEN 400
        ELSE IF toLowerCase(verifyMessage(message, signature)) # normalizedAddress
             THEN 401
        ELSE 0

\* verifySignature leaving the nonce as it was
verifySignature_keepNonce(walletAddress, signature, message, now) ==
    LET normalizedAddress == toLowerCase(walletAddress) IN
    IF verifySignature_check(walletAddress, signature, message) # 0 THEN Throw
    ELSE /\ usersById' = update(normalizedAddress, [lastLoginAt |-> now])
         /\ nonceCtr' = nonceCtr + 1
         /\ UNCHANGED walletIndex
         /\ Reply(0)

verifySignature(walletAddress, signature, message, now) ==
    LET normalizedAddress == toLowerCase(walletAddress) IN
    IF verifySignature_check(walletAddress, signature, message) # 0 THEN Throw
    ELSE /\ nonceCtr' = nonceCtr + 1
         /\ usersById' = update(normalizedAddress,
                [nonce |-> nonceCtr + 1, lastLoginAt |-> now])
         /\ UNCHANGED walletIndex
         /\ Reply(0)

\* PUT /api/auth/user/:walletAddress
updateUserProfile(walletAddress, profile, role) ==
    LET user == findByWallet(walletAddress) IN
    IF user = NoUser THEN Throw
    ELSE /\ usersById' = update(walletAddress,
                [profile |-> Spread(user.profile, profile),
                 role |-> IF role # Absent THEN role ELSE user.role])
         /\ UNCHANGED <<walletIndex, nonceCtr>>
         /\ Reply(0)

\* delete m[k]
Remove(m, k) == [x \in DOMAIN m \ {k} |-> m[x]]

Addresses(user) == {user.linkedWallets[k].address : k \in DOMAIN user.linkedWallets}

\* UserDatabase.addWalletToUser: undefined (FALSE) when the user is unknown
\* or the address is indexed already.
addWalletToUser_defined(userId, address) ==
    /\ userId \in UserIds
    /\ toLowerCase(address) \notin DOMAIN walletIndex

addLinkedWallet_check_noTaken(addressToLink, signature, userId) ==
    LET normalizedAddress == toLowerCase(addressToLink)
        message == LinkMessage(addressToLink)
    IN  IF findById(userId) = NoUser THEN 404
        ELSE IF verifyMessage(message, signature) = "throw" THEN 400
        ELSE IF toLowerCase(verifyMessage(message, signature)) # normalizedAddress
             THEN 401
        ELSE 0

\* POST /api/auth/link-wallet: 0 if every check passes, else the status.
addLinkedWallet_check(addressToLink, signature, userId) ==
    LET normalizedAddress == toLowerCase(addressToLink)
        message == LinkMessage(addressToLink)
    IN  IF findById(userId) = NoUser THEN 404
        ELSE IF isWalletTaken(normalizedAddress) THEN 400
        ELSE IF verifyMessage(message, signature) = "throw" THEN 400
        ELSE IF toLowerCase(verifyMessage(message, signature)) # normalizedAddress
             THEN 401
        ELSE IF ~addWalletToUser_defined(userId, normalizedAddress) THEN 500
        ELSE 0

addLinkedWallet_anySigner(addressToLink, signature, userId, now) ==
    LET normalizedAddress == toLowerCase(addressToLink)
        user == findById(userId)
        walletEntry == [address |-> normalizedAddress, isPrimary |-> FALSE]
    IN  IF addLinkedWallet_check(addressToLink, signature, userId) \notin {0, 401}
        THEN Throw
        ELSE /\ usersById' =
                    [usersById EXCEPT ![userId] =
                        [@ EXCEPT !.linkedWallets = Append(@, walletEntry),
                                   !.lastLoginAt = now]]
             /\ walletIndex' = Put(walletIndex, normalizedAddress, userId)
             /\ UNCHANGED nonceCtr
             /\ Reply(0)

addLinkedWallet(addressToLink, signature, userId, now) ==
    LET normalizedAddress == toLowerCase(addressToLink)
        user == findById(userId)
        walletEntry == [address |-> normalizedAddress, isPrimary |-> FALSE]
    IN  IF addLinkedWallet_check(addressToLink, signature, userId) # 0 THEN Throw
        ELSE /\ usersById' =
                    [usersById EXCEPT ![userId] =
                        [@ EXCEPT !.linkedWallets = Append(@, walletEntry),
                                   !.lastLoginAt = now]]
             /\ walletIndex' = Put(walletIndex, normalizedAddress, userId)
             /\ UNCHANGED nonceCtr
             /\ Reply(0)

\* UserDatabase.removeWalletFromUser: undefined (FALSE) when the user is
\* unknown or the address is the user's primary wallet.
removeWalletFromUser_defined(userId, walletAddress) ==
    /\ userId \in UserIds
    /\ usersById[userId].primaryWallet # toLowerCase(walletAddress)

\* DELETE /api/auth/wallet/:address
removeLinkedWallet_check(address, userId) ==
    LET normalizedAddress == toLowerCase(address)
        user == findById(userId)
    IN  IF user = NoUser THEN 404
        ELSE IF normalizedAddress \notin Addresses(user) THEN 400
        ELSE IF user.primaryWallet = normalizedAddress THEN 400
        ELSE IF ~removeWalletFromUser_defined(userId, normalizedAddress) THEN 500
        ELSE 0

removeLinkedWallet_anyOwnWallet(address, userId) ==
    LET normalizedAddress == toLowerCase(address) IN
    IF removeLinkedWallet_check(address, userId) \in {404}
       \/ normalizedAddress \notin Addresses(findById(userId))
    THEN Throw
    ELSE /\ usersById' =
                [usersById EXCEPT ![userId].linkedWallets =
                    SelectSeq(@, LAMBDA w : w.address # normalizedAddress)]
         /\ walletIndex' = Remove(walletIndex, normalizedAddress)
         /\ UNCHANGED nonceCtr
         /\ Reply(0)

removeLinkedWallet_keepEntry(address, userId) ==
    LET normalizedAddress == toLowerCase(address) IN
    IF removeLinkedWallet_check(address, userId) # 0 THEN Throw
    ELSE /\ walletIndex' = Remove(walletIndex, normalizedAddress)
         /\ UNCHANGED <<usersById, nonceCtr>>
         /\ Reply(0)

\* removeLinkedWallet leaving the index entry of the removed wallet behind
removeLinkedWallet_keepIndex(address, userId) ==
    LET normalizedAddress == toLowerCase(address) IN
    IF removeLinkedWallet_check(address, userId) # 0 THEN Throw
    ELSE /\ usersById' =
                [usersById EXCEPT ![userId].linkedWallets =
                    SelectSeq(@, LAMBDA w : w.address # normalizedAddress)]
         /\ UNCHANGED <<walletIndex, nonceCtr>>
         /\ Reply(0)

removeLinkedWallet(address, userId) ==
    LET normalizedAddress == toLowerCase(address) IN
    IF removeLinkedWallet_check(address, userId) # 0 THEN Throw
    ELSE /\ usersById' =
                [usersById EXCEPT ![userId].linkedWallets =
                    SelectSeq(@, LAMBDA w : w.address # normalizedAddress)]
         /\ walletIndex' = Remove(walletIndex, normalizedAddress)
         /\ UNCHANGED nonceCtr
         /\ Reply(0)

setPrimaryWallet_defined_anyWallet(userId, walletAddress) ==
    userId \in UserIds

\* UserDatabase.setPrimaryWallet: undefined (FALSE) when the user is unknown
\* or holds no entry for the address.
setPrimaryWallet_defined(userId, walletAddress) ==
    /\ userId \in UserIds
    /\ toLowerCase(walletAddress) \in Addresses(usersById[userId])

setPrimaryWallet_keepFlags(userId, walletAddress) ==
    LET normalizedAddress == toLowerCase(walletAddress) IN
    IF ~setPrimaryWallet_defined(userId, walletAddress) THEN Throw
    ELSE /\ usersById' =
                [usersById EXCEPT ![userId].primaryWallet = normalizedAddress]
         /\ UNCHANGED <<walletIndex, nonceCtr>>
         /\ Reply(0)

\* PUT /api/auth/primary-wallet
setPrimaryWallet(userId, walletAddress) ==
    LET normalizedAddress == toLowerCase(walletAddress)
        user == findById(userId)
        flagged ==
            [k \in DOMAIN user.linkedWallets |->
                [address |-> user.linkedWallets[k].address,
                 isPrimary |-> user.linkedWallets[k].address = normalizedAddress]]
    IN
    IF ~setPrimaryWallet_defined(userId, walletAddress) THEN Throw
    ELSE /\ usersById' =
                [usersById EXCEPT ![userId] =
                    [user EXCEPT !.primaryWallet = normalizedAddress,
                                 !.linkedWallets = flagged]]
         /\ UNCHANGED <<walletIndex, nonceCtr>>
         /\ Reply(0)

\* The requests of the challenge / signature flow.
Logins ==
    \/ \E a \in RawAddresses :
          (isWalletTaken(a) \/ (Len(usersById) < MaxUsers /\ nonceCtr < MaxNonces))
          /\ getNonce(a) /\ UNCHANGED <<linkRequests, catalog, client>>
    \/ \E a \in RawAddresses : \E ms \in Presented(a), p \in ProfileInputs, t \in Times :
          (linkWallet_check(a, ms[2], ms[1]) # 0 \/ nonceCtr < MaxNonces)
          /\ linkWallet(a, ms[2], ms[1], p, t) /\ UNCHANGED <<linkRequests, catalog, client>>
    \/ \E a \in RawAddresses : \E ms \in Presented(a), t \in Times :
          (verifySignature_check(a, ms[2], ms[1]) # 0 \/ nonceCtr < MaxNonces)
          /\ verifySignature(a, ms[2], ms[1], t) /\ UNCHANGED <<linkRequests, catalog, client>>
    \/ \E a \in RawAddresses, p \in ProfileInputs, r \in RoleInputs :
          updateUserProfile(a, p, r) /\ UNCHANGED <<linkRequests, catalog, client>>

\* The multi-wallet requests.
WalletOps ==
    \/ \E a \in RawAddresses : \E sig \in LinkSignatures(a), u \in 0..MaxUsers, t \in Times :
          addLinkedWallet(a, sig, u, t) /\ UNCHANGED <<linkRequests, catalog, client>>
    \/ \E a \in RawAddresses, u \in 0..MaxUsers :
          removeLinkedWallet(a, u) /\ UNCHANGED <<linkRequests, catalog, client>>
    \/ \E a \in RawAddresses, u \in 0..MaxUsers :
          setPrimaryWallet(u, a) /\ UNCHANGED <<linkRequests, catalog, client>>

\* Accounts are opened by the first challenge request for an address.
Open ==
    \E a \in RawAddresses :
        (isWalletTaken(a) \/ (Len(usersById) < MaxUsers /\ nonceCtr < MaxNonces))
        /\ getNonce(a) /\ UNCHANGED <<linkRequests, catalog, client>>

InitAuth == Init /\ variant = "addr"

\* Every request a client can send to the identity service.
NextAuth == Logins \/ WalletOps
SpecAuth == InitAuth /\ [][NextAuth]_vars

\* The challenge / signature flow alone.
SpecLogin == InitAuth /\ [][Logins]_vars

\* Account opening and wallet management alone.
NextWallets == Open \/ WalletOps
SpecWallets == InitAuth /\ [][NextWallets]_vars

\* Concurrent POST /auth/link-wallet requests.  Express hands a request to
\* its handler once the body is parsed; requests that arrive together are
\* queued and each handler then runs to completion (addLinkedWallet holds no
\* await), in any order.
\* A request for address a made for account u arrives, signed by the wallet
\* being linked.  The address is new when the first request for it arrives.
receiveLinkRequest(a, u) ==
    /\ Len(linkRequests) < MaxRequests
    /\ u \in UserIds
    /\ \/ ~isWalletTaken(a)
       \/ \E i \in DOMAIN linkRequests :
             toLowerCase(linkRequests[i].addressToLink) = toLowerCase(a)
    /\ linkRequests' = Append(linkRequests,
            [addressToLink |-> a, userId |-> u,
             signature |-> Sign(toLowerCase(a), LinkMessage(a)),
             status |-> "pending"])
    /\ UNCHANGED <<variant, chain, blockTimestamp, reverted, identity, res,
                   catalog, client>>

\* The handler of a pending request runs.
handleLinkRequest(i, now) ==
    /\ linkRequests[i].status = "pending"
    /\ addLinkedWallet(linkRequests[i].addressToLink, linkRequests[i].signature,
                       linkRequests[i].userId, now)
    /\ linkRequests' =
            [linkRequests EXCEPT
                ![i].status = IF res'.success THEN "linked" ELSE "rejected"]
    /\ UNCHANGED <<catalog, client>>

\* The race is among link requests: accounts are opened before the first of
\* them arrives.
NextRace ==
    \/ linkRequests = <<>> /\ Open
    \/ \E a \in RawAddresses, u \in 1..MaxUsers : receiveLinkRequest(a, u)
    \/ \E i \in DOMAIN linkRequests, t \in Times : handleLinkRequest(i, t)
SpecRace == InitAuth /\ [][NextRace]_vars

\* Link requests among removals: a wallet removed from an account is free
\* to be linked again, by whoever presents a signature of it.
NextReplay ==
    \/ NextRace
    \/ \E a \in RawAddresses, u \in 0..MaxUsers :
          removeLinkedWallet(a, u) /\ UNCHANGED <<linkRequests, catalog, client>>
SpecReplay == InitAuth /\ [][NextReplay]_vars

\* ======================================================================
\* Metadata store (productController.ts over ProductDatabase)

\* Map.get on a key the map does not hold.
NoProduct == [id |-> 0]

ProductIds == DOMAIN products

\* String.prototype.trim on the names a client sends.
trim(s) == CASE s = " n1" -> "n1" [] s = " " -> "" [] OTHER -> s

\* /^0x[a-fA-F0-9]{40}$/: every spelling of a wallet and every account of
\* the chain passes, "bad" and the empty string do not.
isValidAddress(address) == address \in RawAddresses \cup Callers

\* Bodies of POST /api/products; a missing field is "".
Dtos ==
    {[name |-> "n1", description |-> "d", manufacturer |-> "0xA"],
     [name |-> " n1", description |-> "d", manufacturer |-> "0xb"],
     [name |-> " ", description |-> "d", manufacturer |-> "0xa"],
     [name |-> "n1", description |-> "", manufacturer |-> "0xa"],
     [name |-> "n1", description |-> "d", manufacturer |-> "bad"]}

\* The errors validateProductPayload collects.
validateProductPayload(dto) ==
    (IF dto.name = "" \/ trim(dto.name) = ""
     THEN {"Product name is required"} ELSE {})
    \cup (IF dto.description = ""
          THEN {"Product description is required"} ELSE {})
    \cup (IF dto.manufacturer = "" \/ ~isValidAddress(dto.manufacturer)
          THEN {"Valid manufacturer wallet address is required"} ELSE {})

\* Bodies of PUT /api/products/:id: the keys the client chose to send.
UpdateInputs ==
    {[name |-> "n2"],
     [description |-> "d2", updatedAt |-> 0],
     [productId |-> 1, name |-> "n2"],
     [productId |-> 2],
     [id |-> 2, createdAt |-> 0, createdBy |-> "0xc"]}

\* delete updates[k] for every k of keys
Without(updates, keys) == [k \in DOMAIN updates \ keys |-> updates[k]]

\* { ...existing, ...updates }
SpreadKeys(existing, updates) ==
    [k \in DOMAIN existing \cup DOMAIN updates |->
        IF k \in DOMAIN updates THEN updates[k] ELSE existing[k]]

\* ProductDatabase lookups
findProductById(id) == IF id \in ProductIds THEN products[id] ELSE NoProduct

findByProductId(productId) ==
    IF productId \in DOMAIN productIdIndex
    THEN findProductById(productIdIndex[productId])
    ELSE NoProduct

\* ProductDatabase.create
productDB_create(product) ==
    /\ products' = Put(products, product.id, product)
    /\ productIdIndex' =
            IF product.productId # 0
            THEN Put(productIdIndex, product.productId, product.id)
            ELSE productIdIndex

\* ProductDatabase.linkToChain on a record the store holds
productDB_linkToChain(id, productId, now) ==
    /\ products' = [products EXCEPT ![id].productId = productId,
                                    ![id].updatedAt = now]
    /\ productIdIndex' = Put(productIdIndex, productId, id)

\* ProductDatabase.update on a record the store holds
productDB_update(id, updates, now) ==
    /\ products' = [products EXCEPT ![id] =
            [SpreadKeys(products[id], updates) EXCEPT !.updatedAt = now]]
    /\ UNCHANGED productIdIndex

\* ProductDatabase.delete on a record the store holds
productDB_delete(id) ==
    /\ productIdIndex' =
            IF products[id].productId # 0
            THEN Remove(productIdIndex, products[id].productId)
            ELSE productIdIndex
    /\ products' = Remove(products, id)

\* res.status(status).json({ ..., data })
Respond(status, data) ==
    /\ reply' = [status |-> status, data |-> data]
    /\ UNCHANGED <<variant, chain, blockTimestamp, reverted, identity, res,
                   linkRequests>>

\* An ApiError (or a validation error) is answered before anything is written.
Refuse(status) ==
    /\ Respond(status, NoProduct)
    /\ UNCHANGED <<productDB, idCtr>>

\* POST /api/products: validateProductPayload, then createProduct
createProduct(dto, now) ==
    IF validateProductPayload(dto) # {} THEN Refuse(400)
    ELSE LET product ==
                [id |-> idCtr + 1,
                 productId |-> 0,
                 name |-> trim(dto.name),
                 description |-> dto.description,
                 manufacturer |-> toLowerCase(dto.manufacturer),
                 createdAt |-> now,
                 updatedAt |-> now,
                 createdBy |-> toLowerCase(dto.manufacturer)]
         IN /\ productDB_create(product)
            /\ idCtr' = idCtr + 1
            /\ Respond(201, product)

\* GET /api/products/chain/:productId
getProductByChainId(productId) ==
    LET product == findByProductId(productId) IN
    IF product = NoProduct THEN [status |-> 404, data |-> NoProduct]
    ELSE [status |-> 200, data |-> product]

\* POST /api/products/batch: productIds.map(id => findByProductId(id) || null)
getProductsBatch(productIds) ==
    [status |-> 200,
     data |-> [k \in DOMAIN productIds |-> findByProductId(productIds[k])]]

\* linkToChain without its look-up of the chain id
linkToChain_check_noConflict(id, productId) ==
    IF productId < 1 THEN 400
    ELSE IF id \notin ProductIds THEN 404
    ELSE 200

\* POST /api/products/:id/link: the status the checks of linkToChain lead to
linkToChain_check(id, productId) ==
    IF productId < 1 THEN 400
    ELSE IF findByProductId(productId) # NoProduct THEN 409
    ELSE IF id \notin ProductIds THEN 404
    ELSE 200

linkToChain(id, productId, now) ==
    LET status == linkToChain_check(id, productId) IN
    IF status # 200 THEN Refuse(status)
    ELSE /\ productDB_linkToChain(id, productId, now)
         /\ UNCHANGED idCtr
         /\ Respond(200, products'[id])

\* updateProduct passing the body on as it came
updateProduct_keepKeys(id, body, now) ==
    IF id \notin ProductIds THEN Refuse(404)
    ELSE /\ productDB_update(id, body, now)
         /\ UNCHANGED idCtr
         /\ Respond(200, products'[id])

\* PUT /api/products/:id
updateProduct(id, body, now) ==
    LET updates == Without(body, {"id", "productId", "createdAt", "createdBy"}) IN
    IF id \notin ProductIds THEN Refuse(404)
    ELSE /\ productDB_update(id, updates, now)
         /\ UNCHANGED idCtr
         /\ Respond(200, products'[id])

\* deleteProduct without its look at product.productId
deleteProduct_check_noLinked(id) ==
    IF id \notin ProductIds THEN 404 ELSE 200

\* DELETE /api/products/:id: the status the checks of deleteProduct lead to
deleteProduct_check(id) ==
    IF id \notin ProductIds THEN 404
    ELSE IF products[id].productId # 0 THEN 400
    ELSE 200

deleteProduct(id) ==
    LET status == deleteProduct_check(id) IN
    IF status # 200 THEN Refuse(status)
    ELSE /\ productDB_delete(id)
         /\ UNCHANGED idCtr
         /\ Respond(200, NoProduct)

\* Every write a client can send to the metadata store.
StoreOps ==
    \/ \E dto \in Dtos, t \in Times :
          (validateProductPayload(dto) # {} \/ idCtr < MaxProducts)
          /\ createProduct(dto, t) /\ UNCHANGED <<chainLinks, client>>
    \/ \E id \in 0..MaxProducts, c \in 0..MaxChainIds, t \in Times :
          linkToChain(id, c, t) /\ UNCHANGED <<chainLinks, client>>
    \/ \E id \in 0..MaxProducts, body \in UpdateInputs, t \in Times :
          updateProduct(id, body, t) /\ UNCHANGED <<chainLinks, client>>
    \/ \E id \in 0..MaxProducts :
          deleteProduct(id) /\ UNCHANGED <<chainLinks, client>>

InitStore == Init /\ variant = "addr"

SpecStore == InitStore /\ [][StoreOps]_vars

\* Concurrent POST /api/products/:id/link requests.  Requests that arrive
\* together are queued by Express and each handler then runs to completion
\* (linkToChain holds no await), in any order.
receiveChainLink(id, productId) ==
    /\ Len(chainLinks) < MaxChainLinks
    /\ chainLinks' = Append(chainLinks,
            [id |-> id, productId |-> productId, status |-> "pending"])
    /\ UNCHANGED <<variant, chain, blockTimestamp, reverted, identity, res,
                   linkRequests, productDB, idCtr, reply, client>>

\* The handler of a pending request runs.
handleChainLink(i, now) ==
    /\ chainLinks[i].status = "pending"
    /\ linkToChain(chainLinks[i].id, chainLinks[i].productId, now)
    /\ chainLinks' =
            [chainLinks EXCEPT
                ![i].status = IF reply'.status = 200 THEN "linked" ELSE "rejected"]
    /\ UNCHANGED client

\* Link requests racing with each other and with the other writes that
\* name a chain id.
NextLinks ==
    \/ \E dto \in Dtos, t \in Times :
          idCtr < MaxProducts
          /\ createProduct(dto, t) /\ UNCHANGED <<chainLinks, client>>
    \/ \E id \in 1..MaxProducts, c \in 1..MaxChainIds : receiveChainLink(id, c)
    \/ \E i \in DOMAIN chainLinks, t \in Times : handleChainLink(i, t)
    \/ \E id \in 0..MaxProducts, c \in 0..MaxChainIds, t \in Times :
          linkToChain(id, c, t) /\ UNCHANGED <<chainLinks, client>>
    \/ \E id \in 0..MaxProducts, t \in Times :
       \E body \in {b \in UpdateInputs : "productId" \in DOMAIN b} :
          updateProduct(id, body, t) /\ UNCHANGED <<chainLinks, client>>
    \/ \E id \in 0..MaxProducts :
          deleteProduct(id) /\ UNCHANGED <<chainLinks, client>>

SpecLinks == InitStore /\ [][NextLinks]_vars

\* ======================================================================
\* Hybrid service: creation flows (part_003 createHybridProduct and
\* addmed/page.tsx handleCreateProduct)
\*
\* Both are async functions.  Between two awaits a flow holds no lock: the
\* steps of other flows and the requests of other clients interleave with
\* it.  An awaited call (request, handler, response) is one step of the
\* flow, since the flow does nothing while it waits.

\* The accounts that start flows; the owner registers them as manufacturers.
FlowAccounts == {"a1", "a2"}

\* fetch either reaches the server or throws (server down, connection lost
\* before the request was read).
Network == {"ok", "down"}

\* fetchApi: success is the server's own flag, which is true exactly on a
\* 2xx answer; a thrown fetch is turned into { success: false }.
fetchApi_success(net, status) == net = "ok" /\ status \in {200, 201}

\* productData handed to createHybridProduct.
FlowDtos ==
    {[name |-> "n1", description |-> "d", manufacturer |-> "0xA"],
     [name |-> " ", description |-> "d", manufacturer |-> "0xa"]}

\* What a flow that was given up reports: { success: false, error } from
\* createHybridProduct, an alert from handleCreateProduct.
Failure == [success |-> FALSE, chainId |-> 0, internalId |-> 0, warned |-> FALSE]

\* What a flow that ran to its end reports: createHybridProduct returns
\* { success: true, chainId, internalId }; handleCreateProduct closes the
\* form and returns nothing.  warned: console.warn was called.
Success(kind, chainId, internalId, warned) ==
    IF kind = "service"
    THEN [success |-> TRUE, chainId |-> chainId, internalId |-> internalId,
          warned |-> warned]
    ELSE [success |-> TRUE, chainId |-> 0, internalId |-> 0, warned |-> warned]

Start(kind, account, dto) ==
    /\ Len(flows) < MaxFlows
    /\ flows' = Append(flows,
            [kind |-> kind, account |-> account, dto |-> dto,
             pc |-> "metadata", internalId |-> 0, chainId |-> 0,
             calls |-> <<>>, result |-> Failure])
    /\ UNCHANGED <<variant, chain, blockTimestamp, reverted, server, view>>

\* createHybridProduct(contract, account, productData) is called.
createHybridProduct(account, productData) == Start("service", account, productData)

\* The form is submitted: handleCreateProduct returns at once unless name
\* and description are filled in; the manufacturer is the connected account.
handleCreateProduct(account, medName, medDes) ==
    /\ medName # "" /\ medDes # ""
    /\ Start("page", account,
             [name |-> medName, description |-> medDes, manufacturer |-> account])

\* createHybridProduct going on to the ledger whatever createProduct answered
createHybridProduct_metadata_goOn(f, net, now) ==
    LET flow == flows[f] IN
    /\ flow.pc = "metadata"
    /\ IF net = "ok"
       THEN createProduct(flow.dto, now) /\ UNCHANGED chainLinks
       ELSE UNCHANGED <<variant, chain, blockTimestamp, reverted, server>>
    /\ flows' = [flows EXCEPT ![f] =
            [flow EXCEPT !.pc = "ledger",
                         !.internalId =
                            IF net = "ok" /\ fetchApi_success(net, reply'.status)
                            THEN reply'.data.id ELSE 0,
                         !.calls = Append(@, "createMetadata")]]
    /\ UNCHANGED view

\* Step 1: await createProduct(productData)
createHybridProduct_metadata(f, net, now) ==
    LET flow == flows[f] IN
    /\ flow.pc = "metadata"
    /\ IF net = "ok"
       THEN createProduct(flow.dto, now) /\ UNCHANGED chainLinks
       ELSE UNCHANGED <<variant, chain, blockTimestamp, reverted, server>>
    /\ flows' = [flows EXCEPT ![f] =
            IF net = "ok" /\ fetchApi_success(net, reply'.status)
            THEN [flow EXCEPT !.pc = "ledger",
                              !.internalId = reply'.data.id,
                              !.calls = Append(@, "createMetadata")]
            ELSE [flow EXCEPT !.pc = "done",
                              !.calls = Append(@, "createMetadata"),
                              !.result = Failure]]
    /\ UNCHANGED view

\* Step 2: await contract.methods.addMedicine().send({ from: account }).
\* send throws when the wallet's user rejects the transaction (nothing is
\* sent) and when the transaction reverts.  createHybridProduct reads the
\* new id from the MedicineCreated event of the receipt, which both
\* contracts emit with the incremented counter; handleCreateProduct reads
\* the counter with a later call.
createHybridProduct_ledger(f, approved) ==
    LET flow == flows[f] IN
    /\ flow.pc = "ledger"
    /\ IF approved
       THEN IF variant = "addr" THEN addMedicine(flow.account)
                                ELSE addMedicine_p8(flow.account)
       ELSE UNCHANGED <<variant, chain, blockTimestamp, reverted, server>>
    /\ flows' = [flows EXCEPT ![f] =
            IF approved /\ ~reverted'
            THEN IF flow.kind = "service"
                 THEN [flow EXCEPT !.pc = "link",
                                   !.chainId = medicineCtr',
                                   !.calls = Append(@, "createLedgerItem")]
                 ELSE [flow EXCEPT !.pc = "counter",
                                   !.calls = Append(@, "createLedgerItem")]
            ELSE [flow EXCEPT !.pc = "done",
                              !.calls = Append(@, "createLedgerItem"),
                              !.result = Failure]]
    /\ UNCHANGED view

\* handleCreateProduct: await supplyChain.methods.medicineCtr().call()
handleCreateProduct_medicineCtr(f) ==
    /\ flows[f].pc = "counter"
    /\ flows' = [flows EXCEPT ![f].pc = "link", ![f].chainId = medicineCtr]
    /\ UNCHANGED <<variant, chain, blockTimestamp, reverted, server, view>>

\* createHybridProduct giving up when the link is refused
createHybridProduct_link_giveUp(f, net, now) ==
    LET flow == flows[f] IN
    /\ flow.pc = "link"
    /\ IF net = "ok"
       THEN linkToChain(flow.internalId, flow.chainId, now) /\ UNCHANGED chainLinks
       ELSE UNCHANGED <<variant, chain, blockTimestamp, reverted, server>>
    /\ flows' = [flows EXCEPT ![f] =
            [flow EXCEPT
                !.pc = "done",
                !.calls = Append(@, "link"),
                !.result =
                    IF net = "ok" /\ fetchApi_success(net, reply'.status)
                    THEN Success(flow.kind, flow.chainId, flow.internalId, FALSE)
                    ELSE Failure]]
    /\ UNCHANGED view

\* Step 3: await linkProductToChain(internalId, chainId); a failure is
\* logged with console.warn and the flow goes on to report success.
createHybridProduct_link(f, net, now) ==
    LET flow == flows[f] IN
    /\ flow.pc = "link"
    /\ IF net = "ok"
       THEN linkToChain(flow.internalId, flow.chainId, now) /\ UNCHANGED chainLinks
       ELSE UNCHANGED <<variant, chain, blockTimestamp, reverted, server>>
    /\ flows' = [flows EXCEPT ![f] =
            [flow EXCEPT
                !.pc = "done",
                !.calls = Append(@, "link"),
                !.result = Success(flow.kind, flow.chainId, flow.internalId,
                    ~(net = "ok" /\ fetchApi_success(net, reply'.status)))]]
    /\ UNCHANGED view

\* The steps of the creation flows.
FlowSteps ==
    \/ \E a \in FlowAccounts, dto \in FlowDtos : createHybridProduct(a, dto)
    \/ \E a \in FlowAccounts : handleCreateProduct(a, "n1", "d")
    \/ \E f \in DOMAIN flows, net \in Network, t \in Times :
          (net = "down" \/ validateProductPayload(flows[f].dto) # {}
                \/ idCtr < MaxProducts)
          /\ createHybridProduct_metadata(f, net, t)
    \/ \E f \in DOMAIN flows, approved \in BOOLEAN :
          (~approved \/ ~onlyManufacturer(flows[f].account)
                \/ medicineCtr < ItemsMaxMedicines)
          /\ createHybridProduct_ledger(f, approved)
    \/ \E f \in DOMAIN flows : handleCreateProduct_medicineCtr(f)
    \/ \E f \in DOMAIN flows, net \in Network, t \in Times :
          createHybridProduct_link(f, net, t)

\* What else happens while flows run: the owner registers a manufacturer,
\* and clients send their own transactions and requests (the retry of a
\* ledger write or of a link, the delete of a record).
Others ==
    \/ \E a \in FlowAccounts :
          /\ manCtr < MaxParticipantsById
          /\ IF variant = "addr" THEN addManufacturer(Owner, a)
                                 ELSE addManufacturer_p8(Owner, a)
          /\ UNCHANGED client
    \/ \E a \in FlowAccounts :
          /\ onlyManufacturer(a) /\ medicineCtr < ItemsMaxMedicines
          /\ IF variant = "addr" THEN addMedicine(a) ELSE addMedicine_p8(a)
          /\ UNCHANGED client
    \/ \E id \in 1..MaxProducts, c \in 1..MaxChainIds, t \in Times :
          linkToChain(id, c, t) /\ UNCHANGED <<chainLinks, client>>
    \/ \E id \in 1..MaxProducts :
          deleteProduct(id) /\ UNCHANGED <<chainLinks, client>>

NextHybrid == FlowSteps \/ Others

SpecHybrid == Init /\ [][NextHybrid]_vars

\* Two clients create products at the same time and nobody else writes: the
\* owner has registered, or registers meanwhile, the accounts as
\* manufacturers.
Registered ==
    \E a \in FlowAccounts :
        /\ manCtr < MaxParticipants
        /\ IF variant = "addr" THEN addManufacturer(Owner, a)
                               ELSE addManufacturer_p8(Owner, a)
        /\ UNCHANGED client

NextFlows == FlowSteps \/ Registered

SpecFlows == Init /\ [][NextFlows]_vars

\* ======================================================================
\* Hybrid service: merged reads (part_003 getHybridProduct and
\* getAllHybridProducts)
\*
\* The node answers every call; a call of getMedicine for an id the ledger
\* does not hold reverts and web3 throws.

\* getMedicine of SupplyChain.sol: the named outputs web3 returns.
getMedicine(_id) ==
    LET m == MedicineStock[_id] IN
    [id |-> m.id, manufacturer |-> m.manufacturer,
     distributor |-> m.distributor, retailer |-> m.retailer,
     stage |-> m.stage, createdAt |-> m.createdAt, updatedAt |-> m.updatedAt]

\* getMedicine of part_008
getMedicine_p8(_id) ==
    LET med == MedicineStock[_id] IN
    [id |-> med.id, manufacturer |-> med.manufacturer,
     distributor |-> med.distributor, retailer |-> med.retailer,
     stage |-> med.stage, createdAt |-> med.createdAt,
     updatedAt |-> med.updatedAt,
     MANid |-> med.MANid, DISid |-> med.DISid, RETid |-> med.RETid]

\* contract.methods.getMedicine(id).call() on an id the ledger holds
call_getMedicine(id) ==
    IF variant = "addr" THEN getMedicine(id) ELSE getMedicine_p8(id)

\* showStage of SupplyChain.sol: the name of a stage
STAGE_text(stage) ==
    CASE stage = Manufactured -> "Manufactured"
      [] stage = Packed -> "Packed"
      [] stage = ShippedToDistributor -> "Shipped to Distributor"
      [] stage = ReceivedByDistributor -> "Received by Distributor"
      [] stage = ShippedToRetailer -> "Shipped to Retailer"
      [] stage = ReceivedByRetailer -> "Received by Retailer"
      [] stage = Sold -> "Sold"
      [] OTHER -> "Unknown"

showStage(_medicineID) == STAGE_text(MedicineStock[_medicineID].stage)

\* obj.key in JavaScript: <<v>> for a key the object holds, <<>> (undefined)
\* for a key it does not hold.
Field(obj, key) == IF key \in DOMAIN obj THEN <<obj[key]>> ELSE <<>>

\* parseBigInt: Number(value) for a bigint, Number(undefined) || 0 = 0
parseBigInt(value) == IF value = <<>> THEN 0 ELSE value[1]

\* timestampToDate: new Date(ts * 1000), as milliseconds
timestampToDate(timestamp) == parseBigInt(timestamp) * 1000

STAGE_NAMES ==
    <<"Init", "Raw Material Supply", "Manufacture", "Distribution", "Retail",
      "Sold">>

\* STAGE_NAMES[stage] || 'Unknown' (the array is indexed from 0)
stageName(stage) ==
    IF stage + 1 \in DOMAIN STAGE_NAMES THEN STAGE_NAMES[stage + 1] ELSE "Unknown"

\* The HybridProduct both reads build from the on-chain data of an item and
\* the metadata found for it (NoProduct: none).
HybridProduct(chainId, onChainData, m) ==
    [chainId |-> chainId,
     createdBy |-> Field(onChainData, "createdBy"),
     stage |-> parseBigInt(Field(onChainData, "stage")),
     stageName |-> stageName(parseBigInt(Field(onChainData, "stage"))),
     createdAt |-> timestampToDate(Field(onChainData, "createdAt")),
     updatedAt |-> timestampToDate(Field(onChainData, "updatedAt")),
     RMSid |-> parseBigInt(Field(onChainData, "RMSid")),
     MANid |-> parseBigInt(Field(onChainData, "MANid")),
     DISid |-> parseBigInt(Field(onChainData, "DISid")),
     RETid |-> parseBigInt(Field(onChainData, "RETid")),
     metadata |->
        IF m = NoProduct THEN NoProduct
        ELSE [id |-> m.id, name |-> m.name, description |-> m.description,
              manufacturer |-> m.manufacturer],
     hasMetadata |-> m # NoProduct]

Idle == view.pc \in {"idle", "done"}

Reads == UNCHANGED <<variant, chain, blockTimestamp, reverted, server, flows>>

\* getHybridProduct(contract, chainId) up to its first await: the call of
\* getMedicine; when it throws, the function returns null.
getHybridProduct(chainId) ==
    /\ Idle
    /\ view' =
        IF validId(chainId)
        THEN [pc |-> "metadata", kind |-> "one", chainIds |-> <<chainId>>,
              onChain |-> <<call_getMedicine(chainId)>>, result |-> <<>>]
        ELSE [pc |-> "done", kind |-> "one", chainIds |-> <<chainId>>,
              onChain |-> <<>>, result |-> <<>>]
    /\ Reads

\* getHybridProduct: await getProductByChainId(chainId), then the merge
getHybridProduct_metadata(net) ==
    /\ view.pc = "metadata"
    /\ LET metadataResponse == getProductByChainId(view.chainIds[1])
           m == IF fetchApi_success(net, metadataResponse.status)
                THEN metadataResponse.data ELSE NoProduct
       IN view' = [view EXCEPT
                !.pc = "done",
                !.result = <<HybridProduct(view.chainIds[1], view.onChain[1], m)>>]
    /\ Reads

\* getAllHybridProducts(contract) up to its first await: medicineCtr
getAllHybridProducts ==
    /\ Idle
    /\ view' =
        IF medicineCtr = 0
        THEN [pc |-> "done", kind |-> "all", chainIds |-> <<>>,
              onChain |-> <<>>, result |-> <<>>]
        ELSE [pc |-> "items", kind |-> "all",
              chainIds |-> [i \in 1..medicineCtr |-> i],
              onChain |-> <<>>, result |-> <<>>]
    /\ Reads

\* getAllHybridProducts: Promise.all of the getMedicine calls; each call is
\* answered on its own, here in the order of the ids.
getAllHybridProducts_getMedicine ==
    /\ view.pc = "items"
    /\ LET onChainResults == Append(view.onChain,
                                    call_getMedicine(Len(view.onChain) + 1))
       IN view' = [view EXCEPT
                !.onChain = onChainResults,
                !.pc = IF Len(onChainResults) = Len(view.chainIds)
                       THEN "batch" ELSE "items"]
    /\ Reads

\* getAllHybridProducts: await getProductsBatch(chainIds), then the merge
getAllHybridProducts_batch(net) ==
    /\ view.pc = "batch"
    /\ LET metadataResponse == getProductsBatch(view.chainIds)
           metadataMap ==
                [k \in DOMAIN view.chainIds |->
                    IF fetchApi_success(net, metadataResponse.status)
                    THEN metadataResponse.data[k] ELSE NoProduct]
       IN view' = [view EXCEPT
                !.pc = "done",
                !.result = [k \in DOMAIN view.chainIds |->
                    HybridProduct(view.chainIds[k], view.onChain[k],
                                  metadataMap[k])]]
    /\ Reads

\* The steps of the merged reads.
ViewSteps ==
    \/ \E chainId \in 0..ItemsMaxMedicines : getHybridProduct(chainId)
    \/ \E net \in Network : getHybridProduct_metadata(net)
    \/ getAllHybridProducts
    \/ getAllHybridProducts_getMedicine
    \/ \E net \in Network : getAllHybridProducts_batch(net)

\* What the reads see: the owner registers a1 as manufacturer and a2 as
\* distributor, a1 creates items, packs them and ships them to a2, blocks
\* are mined, and metadata records are created and linked.
Written ==
    \/ /\ manCtr = 0
       /\ IF variant = "addr" THEN addManufacturer(Owner, "a1")
                              ELSE addManufacturer_p8(Owner, "a1")
       /\ UNCHANGED client
    \/ /\ disCtr = 0
       /\ IF variant = "addr" THEN addDistributor(Owner, "a2")
                              ELSE addDistributor_p8(Owner, "a2")
       /\ UNCHANGED client
    \/ /\ manCtr = 1 /\ medicineCtr < ViewMaxMedicines
       /\ IF variant = "addr" THEN addMedicine("a1") ELSE addMedicine_p8("a1")
       /\ UNCHANGED client
    \/ \E i \in 1..medicineCtr :
          /\ MedicineStock[i].stage = Manufactured
          /\ IF variant = "addr" THEN packMedicine("a1", i) ELSE pack("a1", i)
          /\ UNCHANGED client
    \/ \E i \in 1..medicineCtr :
          /\ MedicineStock[i].stage = Packed /\ disCtr = 1
          /\ IF variant = "addr" THEN shipToDistributor("a1", i, "a2")
                                 ELSE shipToDistributor_p8("a1", i, 1)
          /\ UNCHANGED client
    \/ mineBlock
    \/ \E t \in Times :
          idCtr < MaxProducts
          /\ createProduct([name |-> "n1", description |-> "d",
                            manufacturer |-> "0xA"], t)
          /\ UNCHANGED <<chainLinks, client>>
    \/ \E id \in 1..MaxProducts, c \in 1..ViewMaxMedicines, t \in Times :
          linkToChain(id, c, t) /\ UNCHANGED <<chainLinks, client>>

NextViews == ViewSteps \/ Written

SpecViews == Init /\ [][NextViews]_vars

\* ======================================================================
\* Properties
\* ======================================================================
Items == 1..medicineCtr
Stage(i) == Stock(i).stage
Events(i) == IF i \in DOMAIN StageUpdated THEN StageUpdated[i] ELSE <<>>
ParticipantArgs == 0..(MaxParticipants + 1)

\* The transaction of this step reverted and wrote nothing.
Rejected == reverted' /\ UNCHANGED chain

TypeOK ==
    /\ variant \in {"addr", "id"}
    /\ reverted \in BOOLEAN
    /\ DOMAIN MedicineStock = Items /\ DOMAIN StageUpdated = Items
    /\ DOMAIN MAN = 1..manCtr /\ DOMAIN DIS = 1..disCtr /\ DOMAIN RET = 1..retCtr
    /\ \A i \in Items : Stage(i) \in Manufactured..Sold

\* ---------------------------------------------------------------- C1
\* This step is a transition call on item i made while the item is not in
\* the stage the called operation requires.
OutOfOrderCall(i) ==
    \E s \in Callers :
        \/ /\ variant = "addr"
           /\ \/ Stage(i) # Manufactured /\ packMedicine(s, i)
              \/ Stage(i) # Packed /\ \E d \in Address : shipToDistributor(s, i, d)
              \/ Stage(i) # ShippedToDistributor /\ receiveByDistributor(s, i)
              \/ Stage(i) # ReceivedByDistributor
                   /\ \E r \in Address : shipToRetailer(s, i, r)
              \/ Stage(i) # ShippedToRetailer /\ receiveByRetailer(s, i)
              \/ Stage(i) # ReceivedByRetailer /\ sellMedicine(s, i)
        \/ /\ variant = "id"
           /\ \/ Stage(i) # Manufactured /\ pack(s, i)
              \/ Stage(i) # Packed
                   /\ \E d \in ParticipantArgs : shipToDistributor_p8(s, i, d)
              \/ Stage(i) # ShippedToDistributor /\ receiveByDistributor_p8(s, i)
              \/ Stage(i) # ReceivedByDistributor
                   /\ \E r \in ParticipantArgs : shipToRetailer_p8(s, i, r)
              \/ Stage(i) # ShippedToRetailer /\ receiveByRetailer_p8(s, i)
              \/ Stage(i) # ReceivedByRetailer /\ sell(s, i)

C1_StageIsEventCount ==
    \A i \in Items :
        /\ Stage(i) = Len(Events(i))
        /\ \A k \in 1..Len(Events(i)) : Events(i)[k].stage = k

C1_StepByOne ==
    \A i \in Items : MedicineStock'[i].stage \in {Stage(i), Stage(i) + 1}

C1_OutOfOrderRejected ==
    Rejected \/ \A i \in Items : ~OutOfOrderCall(i)

\* C1: for every item the stage equals the number of successful transition
\* calls made on it since addMedicine (each emits one StageUpdated event,
\* the k-th carrying stage k); a step changes a stage by 0 or +1; and a
\* transition call made in another stage than the one it requires reverts
\* and writes nothing.
C1_StageCountsTransitions ==
    /\ []C1_StageIsEventCount
    /\ [][C1_StepByOne /\ C1_OutOfOrderRejected]_vars

C1_Witness ==
    \E i \in Items :
        /\ Stage(i) = ReceivedByDistributor
        /\ Len(Events(i)) = 3
        /\ reverted

\* ---------------------------------------------------------------- C2
\* The party the transition table names for the transition into stage k.
Custodian(i, k) ==
    IF k \in {Packed, ShippedToDistributor} THEN Stock(i).manufacturer
    ELSE IF k \in {ReceivedByDistributor, ShippedToRetailer}
    THEN Stock(i).distributor
    ELSE Stock(i).retailer

HoldsRoleFor(a, k) ==
    IF k \in {Packed, ShippedToDistributor} THEN manAddressToId[a] > 0
    ELSE IF k \in {ReceivedByDistributor, ShippedToRetailer}
    THEN disAddressToId[a] > 0
    ELSE retAddressToId[a] > 0

\* s is the registered party that may move item i into stage k.
Named(s, i, k) == HoldsRoleFor(s, k) /\ Custodian(i, k) = s

\* This step is a transition call on item i by a caller the table does not
\* name for it.
UnnamedCall(i) ==
    \E s \in Callers :
        \/ /\ variant = "addr"
           /\ \/ ~Named(s, i, Packed) /\ packMedicine(s, i)
              \/ ~Named(s, i, ShippedToDistributor)
                   /\ \E d \in Address : shipToDistributor(s, i, d)
              \/ ~Named(s, i, ReceivedByDistributor) /\ receiveByDistributor(s, i)
              \/ ~Named(s, i, ShippedToRetailer)
                   /\ \E r \in Address : shipToRetailer(s, i, r)
              \/ ~Named(s, i, ReceivedByRetailer) /\ receiveByRetailer(s, i)
              \/ ~Named(s, i, Sold) /\ sellMedicine(s, i)
        \/ /\ variant = "id"
           /\ \/ ~Named(s, i, Packed) /\ pack(s, i)
              \/ ~Named(s, i, ShippedToDistributor)
                   /\ \E d \in ParticipantArgs : shipToDistributor_p8(s, i, d)
              \/ ~Named(s, i, ReceivedByDistributor)
                   /\ receiveByDistributor_p8(s, i)
              \/ ~Named(s, i, ShippedToRetailer)
                   /\ \E r \in ParticipantArgs : shipToRetailer_p8(s, i, r)
              \/ ~Named(s, i, ReceivedByRetailer) /\ receiveByRetailer_p8(s, i)
              \/ ~Named(s, i, Sold) /\ sell(s, i)

\* Every transition recorded for an item was made by the party named for it.
C2_EveryTransitionByNamedParty ==
    \A i \in Items : \A k \in 1..Len(Events(i)) :
        Named(Events(i)[k].updatedBy, i, Events(i)[k].stage)

C2_UnnamedRejected ==
    Rejected \/ \A i \in Items : ~UnnamedCall(i)

\* C2: a transition succeeds only for the party the table names (registered
\* in the role and the item's creator / bound distributor / bound retailer);
\* a transition call by anyone else reverts and leaves the item's record
\* (stage, distributor, retailer, updatedAt) as it was.
C2_OnlyNamedPartyTransitions ==
    /\ []C2_EveryTransitionByNamedParty
    /\ [][C2_UnnamedRejected]_vars

\* An item is shipped to one distributor, a second registered distributor
\* exists, and the last transaction reverted.
C2_Witness ==
    \E i \in Items : \E d \in Callers :
        /\ variant = "addr"
        /\ Stage(i) = ShippedToDistributor
        /\ disAddressToId[d] > 0 /\ d # Stock(i).distributor
        /\ Stock(i).updatedAt < blockTimestamp
        /\ reverted

\* ---------------------------------------------------------------- C3
\* This step is some transition call on item i.
TransitionCall(i) ==
    \E s \in Callers :
        \/ /\ variant = "addr"
           /\ \/ packMedicine(s, i)
              \/ \E d \in Address : shipToDistributor(s, i, d)
              \/ receiveByDistributor(s, i)
              \/ \E r \in Address : shipToRetailer(s, i, r)
              \/ receiveByRetailer(s, i)
              \/ sellMedicine(s, i)
        \/ /\ variant = "id"
           /\ \/ pack(s, i)
              \/ \E d \in ParticipantArgs : shipToDistributor_p8(s, i, d)
              \/ receiveByDistributor_p8(s, i)
              \/ \E r \in ParticipantArgs : shipToRetailer_p8(s, i, r)
              \/ receiveByRetailer_p8(s, i)
              \/ sell(s, i)

C3_SoldFrozen ==
    \A i \in Items :
        Stage(i) = Sold =>
            /\ MedicineStock'[i] = MedicineStock[i]
            /\ StageUpdated'[i] = StageUpdated[i]
            /\ TransitionCall(i) => Rejected

\* A Sold item went through the six transitions, in order.
C3_SoldAfterHappyPath ==
    \A i \in Items :
        Stage(i) = Sold =>
            [k \in 1..Len(Events(i)) |-> Events(i)[k].stage] = <<1, 2, 3, 4, 5, 6>>

\* C3: Sold(6) is terminal: an item is Sold exactly after the six transitions
\* of the happy path, and from then on every transition call on it reverts
\* and its record and event list never change.
C3_SoldIsTerminal ==
    /\ []C3_SoldAfterHappyPath
    /\ [][C3_SoldFrozen]_vars

\* A Sold item, later in time than its sale, after a reverted transaction.
C3_Witness ==
    \E i \in Items :
        /\ Stage(i) = Sold
        /\ Stock(i).updatedAt < blockTimestamp
        /\ reverted

\* ---------------------------------------------------------------- C4
\* This step is a shipping call on item i that names a distributor
\* (resp. retailer) not registered in that role.
ShipToUnregistered(i) ==
    \E s \in Callers :
        \/ /\ variant = "addr"
           /\ \/ \E d \in Address :
                   disAddressToId[d] = 0 /\ shipToDistributor(s, i, d)
              \/ \E r \in Address :
                   retAddressToId[r] = 0 /\ shipToRetailer(s, i, r)
        \/ /\ variant = "id"
           /\ \/ \E d \in ParticipantArgs :
                   d \notin 1..disCtr /\ shipToDistributor_p8(s, i, d)
              \/ \E r \in ParticipantArgs :
                   r \notin 1..retCtr /\ shipToRetailer_p8(s, i, r)

C4_UnregisteredRejected ==
    Rejected \/ \A i \in Items : ~ShipToUnregistered(i)

\* Until an item is shipped its distributor (resp. retailer) field is unset.
C4_UnsetBeforeShipping ==
    \A i \in Items :
        /\ Stage(i) < ShippedToDistributor =>
               Stock(i).distributor = Zero /\ Stock(i).DISid = 0
        /\ Stage(i) < ShippedToRetailer =>
               Stock(i).retailer = Zero /\ Stock(i).RETid = 0

\* C4: shipToDistributor (resp. shipToRetailer) naming a distributor (resp.
\* retailer) that is not registered in that role reverts: the stage stays
\* Packed (resp. ReceivedByDistributor) and the distributor (resp. retailer)
\* field stays unset.
C4_ShipToUnregisteredRejected ==
    /\ []C4_UnsetBeforeShipping
    /\ [][C4_UnregisteredRejected]_vars

\* A Packed item, no distributor registered at all, and the last transaction
\* reverted: every shipToDistributor here names an unregistered distributor.
C4_Witness ==
    \E i \in Items :
        /\ Stage(i) = Packed
        /\ disCtr = 0
        /\ Stock(i).distributor = Zero
        /\ reverted

\* ---------------------------------------------------------------- C5
ShippedToDistributorOnce(i) ==
    \E k \in 1..Len(Events(i)) : Events(i)[k].stage = ShippedToDistributor

ShippedToRetailerOnce(i) ==
    \E k \in 1..Len(Events(i)) : Events(i)[k].stage = ShippedToRetailer

C5_BindingKept ==
    \A i \in Items :
        /\ ShippedToDistributorOnce(i) =>
               /\ MedicineStock'[i].distributor = MedicineStock[i].distributor
               /\ MedicineStock'[i].DISid = MedicineStock[i].DISid
        /\ ShippedToRetailerOnce(i) =>
               /\ MedicineStock'[i].retailer = MedicineStock[i].retailer
               /\ MedicineStock'[i].RETid = MedicineStock[i].RETid

\* C5: once shipToDistributor (resp. shipToRetailer) has succeeded for an
\* item, no later step changes that item's distributor (resp. retailer)
\* address or id.
C5_CustodianBoundOnce == [][C5_BindingKept]_vars

\* An item bound to a distributor and to a retailer, received by that
\* retailer, while a second registered retailer exists to rebind it to.
C5_Witness ==
    \E i \in Items : \E r \in Callers :
        /\ variant = "addr"
        /\ Stage(i) >= ReceivedByRetailer
        /\ Stock(i).distributor # Zero /\ Stock(i).DISid > 0
        /\ retAddressToId[r] > 0 /\ r # Stock(i).retailer

\* ---------------------------------------------------------------- C6
NumRoles(a) ==
    (IF manAddressToId[a] > 0 THEN 1 ELSE 0)
    + (IF disAddressToId[a] > 0 THEN 1 ELSE 0)
    + (IF retAddressToId[a] > 0 THEN 1 ELSE 0)

\* This step is a registration call (SupplyChain.sol) for an address that
\* already holds one of the three roles.
RegisterRoleHolder ==
    \E s \in Callers, a \in Address :
        /\ NumRoles(a) >= 1
        /\ addManufacturer(s, a) \/ addDistributor(s, a) \/ addRetailer(s, a)

C6_AtMostOneRole ==
    variant = "addr" => \A a \in Address : NumRoles(a) <= 1

C6_RoleHolderRejected ==
    variant = "addr" => (Rejected \/ ~RegisterRoleHolder)

\* C6: in SupplyChain.sol every address holds at most one of Manufacturer,
\* Distributor, Retailer, and a registration call for an address that already
\* holds any of the three reverts, leaving role mappings and counters as
\* they were.
C6_RolesExclusive ==
    /\ []C6_AtMostOneRole
    /\ [][C6_RoleHolderRejected]_vars

\* Every account holds a role and the last transaction reverted.
C6_Witness ==
    /\ variant = "addr"
    /\ \A a \in Callers : NumRoles(a) = 1
    /\ medicineCtr = 0
    /\ reverted

\* ---------------------------------------------------------------- C7
\* This step is a registration call of the (address, name, place) variant for
\* an address that already holds a role other than the requested one.
RegisterOtherRoleById ==
    \E s \in Callers, a \in Address :
        \/ /\ disAddressToId[a] > 0 \/ retAddressToId[a] > 0
           /\ addManufacturer_p8(s, a)
        \/ /\ manAddressToId[a] > 0 \/ retAddressToId[a] > 0
           /\ addDistributor_p8(s, a)
        \/ /\ manAddressToId[a] > 0 \/ disAddressToId[a] > 0
           /\ addRetailer_p8(s, a)

C7_AtMostOneRoleById ==
    variant = "id" => \A a \in Address : NumRoles(a) <= 1

C7_OtherRoleRejectedById ==
    variant = "id" => (Rejected \/ ~RegisterOtherRoleById)

\* C7 (as claimed): in the (address, name, place) / ship-by-id variant every
\* address holds at most one of Manufacturer, Distributor, Retailer, and a
\* registration call for an address that holds a different role reverts.
C7_RolesExclusiveById ==
    /\ []C7_AtMostOneRoleById
    /\ [][C7_OtherRoleRejectedById]_vars

\* ---------------------------------------------------------------- C8
\* This step is a registration call by an account other than the owner.
RegisterByNonOwner ==
    \E s \in Callers \ {Owner}, a \in Address :
        \/ /\ variant = "addr"
           /\ addManufacturer(s, a) \/ addDistributor(s, a) \/ addRetailer(s, a)
        \/ /\ variant = "id"
           /\ \/ addManufacturer_p8(s, a)
              \/ addDistributor_p8(s, a)
              \/ addRetailer_p8(s, a)

C8_NonOwnerRejected == Rejected \/ ~RegisterByNonOwner

C8_RolesMonotonic ==
    /\ Owner' = Owner
    /\ \A a \in Address :
        /\ manAddressToId[a] > 0 => manAddressToId'[a] = manAddressToId[a]
        /\ disAddressToId[a] > 0 => disAddressToId'[a] = disAddressToId[a]
        /\ retAddressToId[a] > 0 => retAddressToId'[a] = retAddressToId[a]
    /\ \A k \in 1..manCtr : MAN'[k] = MAN[k]
    /\ \A k \in 1..disCtr : DIS'[k] = DIS[k]
    /\ \A k \in 1..retCtr : RET'[k] = RET[k]

\* C8: a registration call by any account other than the owner reverts and
\* changes nothing, and an address that holds a role keeps that role and
\* role id in every later state.
C8_OnlyOwnerRegisters == [][C8_NonOwnerRejected /\ C8_RolesMonotonic]_vars

\* Participants are registered in every role and the last transaction,
\* sent while no item existed, reverted.
C8_Witness ==
    /\ manCtr > 0 /\ disCtr > 0 /\ retCtr > 0
    /\ medicineCtr = 0
    /\ reverted

\* ---------------------------------------------------------------- C9
C9_OwnerHoldsNoRole ==
    /\ NumRoles(Owner) = 0
    /\ \A i \in Items : Stock(i).manufacturer # Owner

C9_OwnerCreateRejected ==
    (addMedicine(Owner) \/ addMedicine_p8(Owner)) => Rejected

\* C9 (as claimed): the owner holds none of the three roles, every
\* addMedicine call by the owner reverts, and no item has the owner as its
\* creator.
C9_OwnerOnlyRegisters ==
    /\ []C9_OwnerHoldsNoRole
    /\ [][C9_OwnerCreateRejected]_vars

\* --------------------------------------------------------------- C10
\* This step is an addMedicine call by an account that is no manufacturer.
CreateByNonManufacturer ==
    \E s \in Callers :
        /\ ~(manAddressToId[s] > 0)
        /\ \/ variant = "addr" /\ addMedicine(s)
           \/ variant = "id" /\ addMedicine_p8(s)

\* This step is an addMedicine call by s.
CreateBy(s) ==
    \/ variant = "addr" /\ addMedicine(s)
    \/ variant = "id" /\ addMedicine_p8(s)

C10_IdsSequential ==
    /\ DOMAIN MedicineStock = Items
    /\ \A i \in Items :
        /\ Stock(i).id = i
        /\ Stock(i).manufacturer \in Callers
        /\ manAddressToId[Stock(i).manufacturer] = Stock(i).MANid
        /\ Stock(i).MANid > 0

C10_CreateStep ==
    /\ medicineCtr' \in {medicineCtr, medicineCtr + 1}
    /\ \A i \in Items :
        /\ MedicineStock'[i].id = MedicineStock[i].id
        /\ MedicineStock'[i].manufacturer = MedicineStock[i].manufacturer
    /\ medicineCtr' = medicineCtr + 1 =>
        LET new == MedicineStock'[medicineCtr + 1] IN
        /\ new.id = medicineCtr + 1
        /\ new.stage = Manufactured
        /\ new.distributor = Zero /\ new.DISid = 0
        /\ new.retailer = Zero /\ new.RETid = 0
        /\ manAddressToId[new.manufacturer] > 0
        /\ CreateBy(new.manufacturer)
        /\ \A i \in Items : MedicineStock'[i] = MedicineStock[i]
    /\ Rejected \/ ~CreateByNonManufacturer

\* C10: addMedicine succeeds only for a registered manufacturer; the new item
\* gets id = previous count + 1 (ids are exactly 1..medicineCtr), stage
\* Manufactured, creator = caller, no distributor and no retailer; a call by
\* a non-manufacturer reverts and leaves the count and all items unchanged;
\* an item's id and creator never change.
C10_CreateItem ==
    /\ []C10_IdsSequential
    /\ [][C10_CreateStep]_vars

\* Two items exist, the first already shipped, the second just created, and
\* the last transaction reverted.
C10_Witness ==
    /\ medicineCtr = 2
    /\ Stage(1) = ShippedToDistributor
    /\ Stage(2) = Manufactured
    /\ Stock(1).id = 1 /\ Stock(2).id = 2
    /\ reverted

\* ======================================================================
\* Identity service properties
\* ======================================================================
Users == {usersById[u] : u \in UserIds}
IdentityUnchanged == UNCHANGED identity
Thrown == ~res'.success /\ IdentityUnchanged

\* --------------------------------------------------------------- C13
\* This step is a POST /auth/link whose message is not the challenge of the
\* stored nonce, or whose signature is malformed or recovers to another
\* address (or whose address has no identity).
FailedLink ==
    \E a \in RawAddresses : \E ms \in Presented(a), p \in ProfileInputs, t \in Times :
        /\ linkWallet_check(a, ms[2], ms[1]) # 0
        /\ linkWallet(a, ms[2], ms[1], p, t)

C13_FailedLinkThrown == Thrown \/ ~FailedLink

\* Whatever was rejected before, the owner of every linked wallet can still
\* complete a link with a signature over the challenge of the stored nonce.
C13_ChallengeUsable ==
    \A w \in DOMAIN walletIndex :
        LET challenge == createSignMessage(findByWallet(w).nonce, "link-wallet")
        IN  linkWallet_check(w, Sign(w, challenge), challenge) = 0

\* C13: a completeLink that fails (wrong message, malformed signature, other
\* signer) is rejected and leaves nonce, lastLoginAt, profile and wallets of
\* every identity unchanged, so the challenge stays usable for a retry.
C13_FailedLinkKeepsState ==
    /\ []C13_ChallengeUsable
    /\ [][C13_FailedLinkThrown]_vars

\* An identity exists whose link was rejected: it has never logged in and
\* still holds the nonce it was created with.
C13_Witness ==
    /\ ~res.success
    /\ \E u \in UserIds :
        /\ usersById[u].lastLoginAt = 0
        /\ usersById[u].nonce = u
        /\ usersById[u].profile = EmptyProfile

\* --------------------------------------------------------------- C11
\* This step is a POST /auth/link for (a, sig, m) that passes every check
\* and is answered with success.
LinkAccepts(a, sig, m) ==
    /\ linkWallet_check(a, sig, m) = 0
    /\ \E p \in ProfileInputs, t \in Times : linkWallet(a, sig, m, p, t)

\* An accepted link replaces the nonce, and the accepted pair is rejected in
\* the state it leaves.
C11_LinkRotates ==
    res'.success =>
        \A a \in RawAddresses : \A ms \in Presented(a) :
            LinkAccepts(a, ms[2], ms[1]) =>
                /\ findByWallet(a)'.nonce # findByWallet(a).nonce
                /\ linkWallet_check(a, ms[2], ms[1])' # 0

\* A nonce that replaces another was never issued before, so no account ever
\* returns to a nonce that some account held.
C11_NoncesFresh ==
    \A u \in UserIds :
        \/ usersById'[u].nonce = usersById[u].nonce
        \/ usersById'[u].nonce > nonceCtr

C11_NoncesIssued ==
    \A u \in UserIds : usersById[u].nonce \in 1..nonceCtr

\* C11: a successful completeLink replaces the stored nonce by a different,
\* never used one; the same (signature, message) pair presented again for the
\* address is rejected and changes no identity state.
C11_NonceSingleUse ==
    /\ []C11_NoncesIssued
    /\ [][C11_LinkRotates /\ C11_NoncesFresh /\ C13_FailedLinkThrown]_vars

\* A link was accepted (the account logged in and holds a rotated nonce) and
\* the request after it was rejected.
C11_Witness ==
    /\ ~res.success
    /\ Len(usersById) = 1
    /\ usersById[1].lastLoginAt # 0
    /\ usersById[1].nonce = 2

\* --------------------------------------------------------------- C12
\* This step is a POST /auth/verify for (a, sig, m) that passes every check
\* and is answered with success.
VerifyAccepts(a, sig, m) ==
    /\ verifySignature_check(a, sig, m) = 0
    /\ \E t \in Times : verifySignature(a, sig, m, t)

C12_AcceptedOnce ==
    res'.success =>
        \A a \in RawAddresses : \A ms \in Presented(a) :
            /\ (LinkAccepts(a, ms[2], ms[1]) \/ VerifyAccepts(a, ms[2], ms[1])) =>
                /\ findByWallet(a)'.nonce # findByWallet(a).nonce
                /\ linkWallet_check(a, ms[2], ms[1])' # 0
                /\ verifySignature_check(a, ms[2], ms[1])' # 0
            /\ VerifyAccepts(a, ms[2], ms[1]) =>
                ms[1] = createSignMessage(findByWallet(a).nonce, ms[1].action)

\* C12 (as claimed): a (message, signature) pair accepted for an address by
\* /auth/link or /auth/verify is rejected by both endpoints from then on, and
\* /auth/verify accepts only a signature over the challenge of the stored
\* nonce.
C12_VerificationSingleUse == [][C12_AcceptedOnce]_vars

\* --------------------------------------------------------------- C14
\* The identity a first challenge request for address a creates.
C14_Created(a) ==
    LET new == usersById'[Len(usersById) + 1] IN
    /\ Len(usersById') = Len(usersById) + 1
    /\ \A u \in UserIds : usersById'[u] = usersById[u]
    /\ new.primaryWallet = toLowerCase(a)
    /\ new.linkedWallets = <<[address |-> toLowerCase(a), isPrimary |-> TRUE]>>
    /\ new.nonce > nonceCtr
    /\ \A u \in UserIds : new.nonce # usersById[u].nonce
    /\ walletIndex' = Put(walletIndex, toLowerCase(a), Len(usersById) + 1)
    /\ res' = [success |-> TRUE, nonce |-> new.nonce]

C14_Existing(a) ==
    /\ IdentityUnchanged
    /\ res' = [success |-> TRUE, nonce |-> findByWallet(a).nonce]

C14_ChallengeStep ==
    \A a \in RawAddresses :
        getNonce(a) =>
            /\ IF isWalletTaken(a) THEN C14_Existing(a) ELSE C14_Created(a)
            /\ isWalletTaken(a)'
            /\ res'.nonce = findByWallet(a)'.nonce

\* C14: requestChallenge creates an identity (the address as its only,
\* primary wallet, with a fresh nonce) exactly when no identity owns the
\* address; otherwise it changes nothing and returns the stored nonce, so a
\* repeated request returns the same challenge.
C14_RequestChallenge == [][C14_ChallengeStep]_vars

\* The challenge of a two-wallet account whose nonce was rotated has just
\* been returned, with a second account present.
C14_Witness ==
    /\ res.success
    /\ Len(usersById) = 2
    /\ \E u \in UserIds :
        /\ Len(usersById[u].linkedWallets) = 2
        /\ usersById[u].nonce = 3
        /\ res.nonce = 3

\* --------------------------------------------------------------- C15
Wallet(u, k) == usersById[u].linkedWallets[k].address
Entries == {<<u, k>> : u \in UserIds, k \in 1..MaxUsers + 2}
LinkedEntries == {e \in Entries : e[2] \in DOMAIN usersById[e[1]].linkedWallets}

\* C15: every wallet address appears in the linkedWallets of at most one
\* identity, and at most once within it.
C15_WalletInOneAccount ==
    \A e1 \in LinkedEntries, e2 \in LinkedEntries :
        Wallet(e1[1], e1[2]) = Wallet(e2[1], e2[2]) => e1 = e2

\* Two accounts hold all three wallets between them, the nonce of the first
\* was rotated, and the last request was rejected.
C15_Witness ==
    /\ Len(usersById) = 2
    /\ Cardinality(LinkedEntries) = 3
    /\ usersById[1].nonce = 3
    /\ ~res.success

\* --------------------------------------------------------------- C16
RequestsFor(a) ==
    {i \in DOMAIN linkRequests : toLowerCase(linkRequests[i].addressToLink) = a}
Handled(a) == {i \in RequestsFor(a) : linkRequests[i].status # "pending"}
Winners(a) == {i \in RequestsFor(a) : linkRequests[i].status = "linked"}

\* C16: of the link-wallet requests for one new address that are in flight
\* together (for the same or different accounts, each validly signed),
\* exactly one succeeds and every other one is rejected, whatever the order
\* in which their handlers run; the address ends up once, in the account of
\* the request that succeeded.
C16_OneWinner ==
    \A a \in Wallets :
        /\ Cardinality(Winners(a)) <= 1
        /\ Handled(a) # {} => Cardinality(Winners(a)) = 1
        /\ \A i \in Winners(a) :
            /\ walletIndex[a] = linkRequests[i].userId
            /\ Cardinality({e \in LinkedEntries : Wallet(e[1], e[2]) = a}) = 1
            /\ a \in Addresses(usersById[linkRequests[i].userId])

\* Three requests for one address, made for both accounts, have all been
\* handled; the one handled first was not the one received first.
C16_Witness ==
    /\ Len(linkRequests) = 3
    /\ \E a \in Wallets :
        /\ Cardinality(Handled(a)) = 3
        /\ {linkRequests[i].userId : i \in RequestsFor(a)} = {1, 2}
        /\ linkRequests[1].status = "rejected"

\* --------------------------------------------------------------- C17
\* This step is a POST /auth/link-wallet for (a, sig, u).
LinkWalletStep(a, sig, u) == \E t \in Times : addLinkedWallet(a, sig, u, t)

\* The signature is by the wallet being added, over its link message.
SignedByNewWallet(a, sig) == sig = Sign(toLowerCase(a), LinkMessage(a))

C17_Appended(a, u) ==
    /\ usersById'[u].linkedWallets =
            Append(usersById[u].linkedWallets,
                   [address |-> toLowerCase(a), isPrimary |-> FALSE])
    /\ usersById'[u].primaryWallet = usersById[u].primaryWallet
    /\ \A v \in UserIds \ {u} : usersById'[v] = usersById[v]
    /\ walletIndex' = Put(walletIndex, toLowerCase(a), u)

C17_LinkStep ==
    \A a \in RawAddresses, u \in 0..MaxUsers :
        \A sig \in LinkSignatures(a) :
            LinkWalletStep(a, sig, u) =>
                IF res'.success
                THEN /\ SignedByNewWallet(a, sig)
                     /\ ~isWalletTaken(a)
                     /\ u \in UserIds
                     /\ C17_Appended(a, u)
                ELSE UNCHANGED userDB

\* C17: addSecondaryWallet succeeds only if the signature over the link
\* message recovers to the new address itself and the address is linked to
\* no identity; on success one non-primary entry is appended to the account
\* and the reverse index maps the address to it; on rejection neither the
\* wallet lists nor the reverse index change.
C17_AddSecondaryWallet == [][C17_LinkStep]_vars

\* An account holds a secondary wallet next to its primary, a second account
\* exists, and the last request was rejected.
C17_Witness ==
    /\ Len(usersById) = 2
    /\ \E u \in UserIds :
        /\ Len(usersById[u].linkedWallets) = 2
        /\ ~usersById[u].linkedWallets[2].isPrimary
        /\ usersById[u].lastLoginAt # 0
    /\ ~res.success

\* --------------------------------------------------------------- C18
PrimaryEntries(u) ==
    {k \in DOMAIN usersById[u].linkedWallets :
        usersById[u].linkedWallets[k].isPrimary}

\* C18: every identity has exactly one linkedWallets entry flagged primary,
\* and its address is primaryWallet.
C18_OnePrimary ==
    \A u \in UserIds :
        /\ Cardinality(PrimaryEntries(u)) = 1
        /\ \A k \in PrimaryEntries(u) : Wallet(u, k) = usersById[u].primaryWallet

\* An account whose primary is its second wallet, after a link rotated its
\* nonce and its profile was written; the last request was rejected.
C18_Witness ==
    /\ \E u \in UserIds :
        /\ Len(usersById[u].linkedWallets) = 2
        /\ PrimaryEntries(u) = {2}
        /\ usersById[u].nonce > u
        /\ usersById[u].profile # EmptyProfile
        /\ usersById[u].role = "manufacturer"
    /\ ~res.success

\* --------------------------------------------------------------- C19
C19_Removed(a, u) ==
    /\ res'.success
    /\ usersById'[u].linkedWallets =
            SelectSeq(usersById[u].linkedWallets,
                      LAMBDA w : w.address # toLowerCase(a))
    /\ Len(usersById'[u].linkedWallets) = Len(usersById[u].linkedWallets) - 1
    /\ usersById'[u].primaryWallet = usersById[u].primaryWallet
    /\ \A v \in UserIds \ {u} : usersById'[v] = usersById[v]
    /\ walletIndex' = Remove(walletIndex, toLowerCase(a))
    \* the address is owned by no identity, and is free to be linked again
    \* or to open an account
    /\ \A v \in UserIds : toLowerCase(a) \notin Addresses(usersById'[v])
    /\ findByWallet(a)' = NoUser
    /\ \A v \in UserIds :
        addLinkedWallet_check(a, Sign(toLowerCase(a), LinkMessage(a)), v)' = 0

C19_RemoveStep ==
    \A a \in RawAddresses, u \in 0..MaxUsers :
        removeLinkedWallet(a, u) =>
            IF \/ u \notin UserIds
               \/ toLowerCase(a) \notin Addresses(findById(u))
               \/ findById(u).primaryWallet = toLowerCase(a)
            THEN Thrown
            ELSE C19_Removed(a, u)

\* C19: removeWallet is rejected, changing nothing, for the account's
\* primary wallet and for an address that is none of the account's wallets;
\* otherwise it removes that entry and frees the address in the reverse
\* index, so the address belongs to no identity and can be linked again or
\* open a new account.
C19_RemoveWallet == [][C19_RemoveStep]_vars

\* A secondary wallet was linked to an account and removed again.
C19_Witness ==
    /\ res.success
    /\ Len(usersById) = 2
    /\ Cardinality(DOMAIN walletIndex) = 2
    /\ \E u \in UserIds :
        /\ usersById[u].lastLoginAt # 0
        /\ Len(usersById[u].linkedWallets) = 1

\* --------------------------------------------------------------- C20
C20_Promoted(a, u) ==
    LET old == usersById[u].linkedWallets
        new == usersById'[u].linkedWallets
    IN  /\ res'.success
        /\ usersById'[u].primaryWallet = toLowerCase(a)
        /\ DOMAIN new = DOMAIN old
        /\ \A k \in DOMAIN old :
            /\ new[k].address = old[k].address
            /\ new[k].isPrimary = (old[k].address = toLowerCase(a))
        /\ usersById'[u].nonce = usersById[u].nonce
        /\ usersById'[u].profile = usersById[u].profile
        /\ usersById'[u].lastLoginAt = usersById[u].lastLoginAt
        /\ \A v \in UserIds \ {u} : usersById'[v] = usersById[v]
        /\ UNCHANGED <<walletIndex, nonceCtr>>

C20_SetPrimaryStep ==
    \A a \in RawAddresses, u \in 0..MaxUsers :
        setPrimaryWallet(u, a) =>
            IF u \in UserIds /\ toLowerCase(a) \in Addresses(findById(u))
            THEN C20_Promoted(a, u)
            ELSE Thrown

\* C20: setPrimaryWallet succeeds only for an address among the account's
\* linked wallets; then primaryWallet is that address, isPrimary holds for
\* that entry only, and the linked addresses and the reverse index are as
\* before; for any other address (one of another account included) the call
\* is rejected and nothing changes.
C20_SetPrimaryWallet == [][C20_SetPrimaryStep]_vars

\* An account's second wallet is its primary, a second account exists, and
\* the last request was rejected.
C20_Witness ==
    /\ Len(usersById) = 2
    /\ \E u \in UserIds :
        /\ Len(usersById[u].linkedWallets) = 2
        /\ usersById[u].primaryWallet = Wallet(u, 2)
        /\ usersById[u].linkedWallets[2].isPrimary
        /\ ~usersById[u].linkedWallets[1].isPrimary
    /\ ~res.success

\* ======================================================================
\* Properties of the metadata store

Linked == {id \in ProductIds : products[id].productId # 0}

\* A request that was refused left the store as it was.
Refused == reply'.status \notin {200, 201} /\ UNCHANGED <<productDB, idCtr>>

\* --------------------------------------------------------------- C21
\* C21: link is idempotent: once link(internalId, chainId) has succeeded,
\* so that the record carries chainId, the same call succeeds again.
C21_LinkIdempotent ==
    \A id \in Linked : linkToChain_check(id, products[id].productId) = 200

\* --------------------------------------------------------------- C22
C22_ChainIdUnique ==
    \A i, j \in Linked :
        products[i].productId = products[j].productId => i = j

C22_ConflictStep ==
    \A id \in 0..MaxProducts, c \in 1..MaxChainIds, t \in Times :
        (/\ linkToChain(id, c, t)
         /\ \E j \in Linked \ {id} : products[j].productId = c)
        => reply'.status = 409 /\ Refused

LinkWinners(c) ==
    {i \in DOMAIN chainLinks :
        chainLinks[i].productId = c /\ chainLinks[i].status = "linked"}

C22_OneWinner ==
    \A c \in 1..MaxChainIds : Cardinality(LinkWinners(c)) <= 1

\* C22: no two metadata records carry the same chain id: a link naming a
\* chain id that another record carries is answered 409 and changes
\* nothing, and of the link requests in flight for one chain id at most one
\* succeeds.
C22_ChainIdsUnique ==
    /\ []C22_ChainIdUnique
    /\ [][C22_ConflictStep]_vars
    /\ []C22_OneWinner

\* Two requests for one chain id and different records were pending
\* together; the later one was handled first and won, the earlier one was
\* answered 409.
C22_Witness ==
    /\ Len(chainLinks) = 2
    /\ chainLinks[1].productId = chainLinks[2].productId
    /\ chainLinks[1].id # chainLinks[2].id
    /\ chainLinks[1].status = "rejected"
    /\ chainLinks[2].status = "linked"
    /\ reply.status = 409
    /\ {chainLinks[1].id, chainLinks[2].id} \subseteq ProductIds
    /\ products[chainLinks[2].id].productId = chainLinks[2].productId
    /\ products[chainLinks[1].id].productId = 0

\* --------------------------------------------------------------- C23
C23_ChainIdKept ==
    \A id \in Linked :
        /\ id \in ProductIds'
        /\ products'[id].productId = products[id].productId

\* C23: a record's chain id is immutable once set: no step changes the
\* chain id of a linked record.
C23_ChainIdImmutable == [][C23_ChainIdKept]_vars

\* --------------------------------------------------------------- C27
C27_LinkedRefused == \A id \in Linked : deleteProduct_check(id) = 400

C27_DeleteStep ==
    \A id \in 0..MaxProducts :
        deleteProduct(id) =>
            IF id \in ProductIds /\ products[id].productId = 0
            THEN /\ reply'.status = 200
                 /\ products' = Remove(products, id)
                 /\ productIdIndex' = productIdIndex
            ELSE Refused

\* A linked record is in the store, linked, after every step; its chain id
\* is the one it had unless the step bound it to a chain id that was free.
C27_LinkedStays ==
    \A id \in Linked :
        /\ id \in ProductIds'
        /\ products'[id].productId # 0
        /\ \/ products'[id].productId = products[id].productId
           \/ products'[id].productId \notin DOMAIN productIdIndex

C28_UpdateStep ==
    \A id \in 0..MaxProducts, body \in UpdateInputs, t \in Times :
        updateProduct(id, body, t) =>
            IF id \in ProductIds
            THEN /\ reply'.status = 200
                 /\ ProductIds' = ProductIds
                 /\ \A f \in {"id", "productId", "createdAt", "createdBy"} :
                        products'[id][f] = products[id][f]
                 /\ \A j \in ProductIds \ {id} : products'[j] = products[j]
                 /\ productIdIndex' = productIdIndex
            ELSE reply'.status = 404 /\ Refused

\* C28: updateMetadata never changes a record's internal id, chain id,
\* createdAt or createdBy, whatever the payload holds, and never changes the
\* reverse index; the update of an unknown internal id is refused with no
\* state change.
C28_UpdateKeepsIdentity == [][C28_UpdateStep]_vars

\* A linked record took a new name and a new description from payloads, one
\* of which also carried a productId; the last request named an unknown id.
C28_Witness ==
    /\ reply.status = 404
    /\ \E id \in Linked :
        /\ products[id].productId = 2
        /\ products[id].name = "n2"
        /\ products[id].description = "d2"

\* ======================================================================
\* Properties of the creation flows

Flows == DOMAIN flows
HybridCalls == <<"createMetadata", "createLedgerItem", "link">>
IsPrefix(s, t) == Len(s) <= Len(t) /\ \A k \in DOMAIN s : s[k] = t[k]

\* Flow f took a step.
Stepped(f) == flows'[f] # flows[f]

\* --------------------------------------------------------------- C25
C25_InOrder == \A f \in Flows : IsPrefix(flows[f].calls, HybridCalls)

\* The ledger is called only by a flow that holds the id of the record its
\* createMetadata call stored.
C25_LedgerAfterMetadata ==
    \A f \in Flows :
        (flows[f].pc \in {"ledger", "counter", "link"} \/ Len(flows[f].calls) >= 2)
        => flows[f].internalId \in 1..idCtr

\* link is called only by a flow whose transaction created an item.
C25_LinkAfterLedger ==
    \A f \in Flows :
        (flows[f].pc \in {"counter", "link"} \/ Len(flows[f].calls) = 3)
        => /\ \E i \in 1..medicineCtr :
                MedicineStock[i].manufacturer = flows[f].account
           /\ flows[f].kind = "service" =>
                /\ flows[f].chainId \in 1..medicineCtr
                /\ MedicineStock[flows[f].chainId].manufacturer = flows[f].account

\* A flow that stopped after a call stopped for good and reports a failure.
C25_Aborted ==
    \A f \in Flows :
        (flows[f].pc = "done" /\ Len(flows[f].calls) < 3)
        => ~flows[f].result.success /\ flows[f].chainId = 0

C25_MetadataStep ==
    \A f \in Flows :
        (flows[f].pc = "metadata" /\ Stepped(f)) =>
            /\ UNCHANGED <<chain, productIdIndex>>
            /\ flows'[f].calls = <<"createMetadata">>
            /\ IF products' = products
               THEN flows'[f].pc = "done" /\ flows'[f].internalId = 0
               ELSE /\ flows'[f].pc = "ledger"
                    /\ flows'[f].internalId = idCtr'
                    /\ ProductIds' = ProductIds \cup {idCtr'}

C25_LedgerStep ==
    \A f \in Flows :
        (flows[f].pc = "ledger" /\ Stepped(f)) =>
            /\ UNCHANGED catalog
            /\ flows'[f].calls = <<"createMetadata", "createLedgerItem">>
            /\ IF medicineCtr' = medicineCtr
               THEN flows'[f].pc = "done"
               ELSE flows'[f].pc \in {"counter", "link"}

C25_Finished ==
    \A f \in Flows : flows[f].pc = "done" => flows'[f] = flows[f]

\* C25: createHybridItem calls createMetadata, createLedgerItem and link in
\* this order and aborts early: when createMetadata fails nothing is written
\* to the ledger and no further call is made; link is called only after the
\* ledger call has succeeded.
C25_StepsInOrder ==
    /\ [](C25_InOrder /\ C25_LedgerAfterMetadata /\ C25_LinkAfterLedger
            /\ C25_Aborted)
    /\ [][C25_MetadataStep /\ C25_LedgerStep /\ C25_Finished]_vars

\* The flow of a registered manufacturer was given up at createMetadata,
\* with no item on the ledger, and another flow made all three calls.
C25_Witness ==
    /\ Len(flows) = 2
    /\ flows[1].pc = "done" /\ flows[1].calls = <<"createMetadata">>
    /\ onlyManufacturer(flows[1].account)
    /\ flows[2].pc = "done" /\ flows[2].calls = HybridCalls
    /\ medicineCtr = 1

\* --------------------------------------------------------------- C24
\* C24: a flow whose createMetadata succeeded and whose ledger call failed
\* reports the internal id of the record it stored, and no ledger id.
C24_UnlinkedReported ==
    \A f \in Flows :
        (flows[f].pc = "done" /\ flows[f].calls = <<"createMetadata", "createLedgerItem">>)
        => /\ flows[f].result.internalId = flows[f].internalId
           /\ flows[f].result.chainId = 0

\* --------------------------------------------------------------- C26
C26_LinkStep ==
    \A f \in Flows :
        (flows[f].pc = "link" /\ Stepped(f)) =>
            /\ flows'[f].pc = "done"
            /\ flows'[f].result.success
            /\ flows[f].kind = "service" =>
                /\ flows'[f].result.internalId = flows[f].internalId
                /\ flows'[f].result.chainId = flows[f].chainId
                /\ flows[f].chainId \in DOMAIN MedicineStock'
            /\ UNCHANGED <<chain, idCtr>>
            /\ IF productDB' = productDB
               THEN flows'[f].result.warned
               ELSE /\ ~flows'[f].result.warned
                    /\ products'[flows[f].internalId].productId = flows[f].chainId

LedgerFields ==
    {"chainId", "createdBy", "stage", "stageName", "createdAt", "updatedAt",
     "RMSid", "MANid", "DISid", "RETid"}

\* Product p carries what the ledger holds for item i: its stage, its
\* timestamps (as milliseconds) and its custodians.
LedgerTruth(p, i) ==
    /\ p.chainId = i
    /\ p.stage = MedicineStock[i].stage
    /\ p.createdAt = MedicineStock[i].createdAt * 1000
    /\ p.updatedAt = MedicineStock[i].updatedAt * 1000
    /\ p.createdBy = <<MedicineStock[i].manufacturer>>
    /\ p.MANid = MedicineStock[i].MANid
    /\ p.DISid = MedicineStock[i].DISid
    /\ p.RETid = MedicineStock[i].RETid

\* --------------------------------------------------------------- C29
\* A read of an item the ledger holds goes on to the merge.
C29_StartStep ==
    \A chainId \in 1..ViewMaxMedicines :
        (getHybridProduct(chainId) /\ validId(chainId)) => view'.pc = "metadata"

\* What a read takes from the ledger is what the ledger holds at that time.
C29_ReadStep ==
    (view' # view /\ view'.pc \in {"metadata", "items", "batch"}
        /\ view'.onChain # <<>>)
    => LET k == Len(view'.onChain) IN
       LedgerTruth(HybridProduct(view'.chainIds[k], view'.onChain[k], NoProduct),
                   view'.chainIds[k])

\* The merge returns one product per item read; its ledger fields are those
\* read, whatever the metadata holds, and it has no metadata exactly when
\* the store resolves the chain id to no record or cannot be reached.
C29_MergeStep ==
    (view.pc \in {"metadata", "batch"} /\ view' # view) =>
        /\ view'.pc = "done"
        /\ Len(view'.result) = Len(view.chainIds)
        /\ \A k \in DOMAIN view'.result :
            LET p == view'.result[k] IN
            /\ \A f \in LedgerFields :
                p[f] = HybridProduct(view.chainIds[k], view.onChain[k], NoProduct)[f]
            /\ p.hasMetadata = (p.metadata # NoProduct)
            /\ view.chainIds[k] \notin DOMAIN productIdIndex => ~p.hasMetadata
            /\ p.hasMetadata =>
                p.metadata.id = productIdIndex[view.chainIds[k]]

BatchInputs ==
    {<<>>} \cup {<<a>> : a \in 0..ViewMaxMedicines}
           \cup {<<a, b>> : a, b \in 0..ViewMaxMedicines}

\* getBatch answers every list of ids with one entry per id, in request
\* order: the record the index resolves the id to, or null.
C29_Batch ==
    \A ids \in BatchInputs :
        LET r == getProductsBatch(ids) IN
        /\ r.status = 200
        /\ Len(r.data) = Len(ids)
        /\ \A k \in DOMAIN ids :
            r.data[k] = IF ids[k] \in DOMAIN productIdIndex
                        THEN products[productIdIndex[ids[k]]]
                        ELSE NoProduct

\* C29: the merged view of an item the ledger holds always succeeds and
\* carries the ledger's stage, timestamps and custody fields as the ledger
\* holds them, whatever the metadata record contains; without linked
\* metadata it succeeds with hasMetadata = false; getBatch returns one entry
\* per requested id, in request order, null where there is no metadata.
C29_LedgerAuthoritative ==
    /\ []C29_Batch
    /\ [][C29_StartStep /\ C29_ReadStep /\ C29_MergeStep]_vars

\* --------------------------------------------------------------- C30
\* C30: the stage name of every product of a merged view is the name the
\* ledger's showStage gives that stage.
C30_StageNames ==
    \A k \in DOMAIN view.result :
        view.result[k].stageName = STAGE_text(view.result[k].stage)

\* ---------------------------------------------------------------- C31
RegisteredAs(role) ==
    IF role = "Manufacturer" THEN [ctr |-> manCtr, list |-> MAN, ids |-> manAddressToId]
    ELSE IF role = "Distributor" THEN [ctr |-> disCtr, list |-> DIS, ids |-> disAddressToId]
    ELSE [ctr |-> retCtr, list |-> RET, ids |-> retAddressToId]

\* The StageUpdated events of an item carry the stages 1, 2, ..., current
\* stage in that order, each with the party the table names as updatedBy.
C31_StageLog ==
    \A i \in Items :
        /\ Len(Events(i)) = Stage(i)
        /\ \A k \in 1..Len(Events(i)) :
              /\ Events(i)[k].stage = k
              /\ Events(i)[k].updatedBy = Custodian(i, k)
              /\ HoldsRoleFor(Events(i)[k].updatedBy, k)

\* The ParticipantRegistered events of a role are its registrations: the
\* k-th carries the address stored under id k and the id k.
C31_RegistrationLog ==
    \A role \in Roles :
        /\ Len(ParticipantRegistered[role]) = RegisteredAs(role).ctr
        /\ \A k \in 1..Len(ParticipantRegistered[role]) :
              /\ ParticipantRegistered[role][k].id = k
              /\ ParticipantRegistered[role][k].participant
                    = Participant(RegisteredAs(role).list, k)
              /\ RegisteredAs(role).ids[ParticipantRegistered[role][k].participant] = k

\* A reverted call emits nothing.
C31_RejectedSilent ==
    reverted' => UNCHANGED <<StageUpdated, ParticipantRegistered>>

\* A step that moves item i emits one StageUpdated event, for i, and nothing
\* else; a step that registers a participant emits one ParticipantRegistered
\* event, for its role, and nothing else.
C31_OnePerSuccess ==
    /\ \A i \in Items :
          Stage(i) # MedicineStock'[i].stage =>
              /\ Len(StageUpdated'[i]) = Len(StageUpdated[i]) + 1
              /\ \A j \in Items \ {i} : StageUpdated'[j] = StageUpdated[j]
              /\ UNCHANGED ParticipantRegistered
    /\ \A role \in Roles :
          RegisteredAs(role).ctr # RegisteredAs(role).ctr' =>
              /\ Len(ParticipantRegistered'[role])
                    = Len(ParticipantRegistered[role]) + 1
              /\ \A other \in Roles \ {role} :
                    ParticipantRegistered'[other] = ParticipantRegistered[other]
              /\ UNCHANGED StageUpdated

\* The event of a successful call carries the call's own arguments and caller.
C31_Carries ==
    (~reverted' /\ chain' # chain) =>
    \A s \in Callers :
        /\ \A a \in Address :
              /\ (addManufacturer(s, a) \/ addManufacturer_p8(s, a)) /\ ~reverted' =>
                    ParticipantRegistered'["Manufacturer"] =
                        Append(ParticipantRegistered["Manufacturer"],
                               [participant |-> a, id |-> manAddressToId'[a]])
              /\ (addDistributor(s, a) \/ addDistributor_p8(s, a)) /\ ~reverted' =>
                    ParticipantRegistered'["Distributor"] =
                        Append(ParticipantRegistered["Distributor"],
                               [participant |-> a, id |-> disAddressToId'[a]])
              /\ (addRetailer(s, a) \/ addRetailer_p8(s, a)) /\ ~reverted' =>
                    ParticipantRegistered'["Retailer"] =
                        Append(ParticipantRegistered["Retailer"],
                               [participant |-> a, id |-> retAddressToId'[a]])
        /\ \A i \in Items :
              (/\ \/ packMedicine(s, i) \/ pack(s, i)
                  \/ \E d \in Address : shipToDistributor(s, i, d)
                  \/ \E d \in ParticipantArgs : shipToDistributor_p8(s, i, d)
                  \/ receiveByDistributor(s, i) \/ receiveByDistributor_p8(s, i)
                  \/ \E r \in Address : shipToRetailer(s, i, r)
                  \/ \E r \in ParticipantArgs : shipToRetailer_p8(s, i, r)
                  \/ receiveByRetailer(s, i) \/ receiveByRetailer_p8(s, i)
                  \/ sellMedicine(s, i) \/ sell(s, i)
               /\ ~reverted')
              => StageUpdated'[i] = Append(StageUpdated[i],
                    [stage |-> MedicineStock'[i].stage, updatedBy |-> s])

\* C31: every successful transition emits exactly one StageUpdated event
\* carrying (item id, new stage, caller) and every successful registration
\* exactly one ParticipantRegistered event carrying (role, address, assigned
\* id); a reverted call emits nothing; so the events of an item carry the
\* stages 1, 2, ..., current stage in order, each by the party the
\* transition table requires.
C31_EventsFollowTransitions ==
    /\ [](C31_StageLog /\ C31_RegistrationLog)
    /\ [][C31_RejectedSilent /\ C31_OnePerSuccess /\ C31_Carries]_vars

\* A sold item with its six events, all three roles registered, and a
\* reverted call after them.
C31_Witness ==
    \E i \in Items :
        /\ Stage(i) = Sold /\ Len(Events(i)) = 6
        /\ \A role \in Roles : Len(ParticipantRegistered[role]) >= 1
        /\ reverted

\* ---------------------------------------------------------------- C32
\* C32: custody fields track the stage: an item's distributor is unset
\* exactly below ShippedToDistributor and its retailer exactly below
\* ShippedToRetailer; a bound distributor (retailer) is registered in that
\* role and DISid (RETid) is its role id; the creator is a registered
\* manufacturer.
C32_CustodyTracksStage ==
    \A i \in Items :
        /\ Stock(i).distributor = Zero <=> Stage(i) < ShippedToDistributor
        /\ Stock(i).retailer = Zero <=> Stage(i) < ShippedToRetailer
        /\ Stock(i).distributor # Zero =>
              /\ disAddressToId[Stock(i).distributor] > 0
              /\ Stock(i).DISid = disAddressToId[Stock(i).distributor]
        /\ Stock(i).retailer # Zero =>
              /\ retAddressToId[Stock(i).retailer] > 0
              /\ Stock(i).RETid = retAddressToId[Stock(i).retailer]
        /\ manAddressToId[Stock(i).manufacturer] > 0
        /\ Stock(i).MANid = manAddressToId[Stock(i).manufacturer]

\* ---------------------------------------------------------------- C33
\* Caller s can send a call that moves item i to its next stage.
CanAdvance(s, i) ==
    IF variant = "addr"
    THEN CASE Stage(i) = Manufactured -> packMedicine_require(s, i) = ""
           [] Stage(i) = Packed ->
                \E d \in Address : shipToDistributor_require(s, i, d) = ""
           [] Stage(i) = ShippedToDistributor ->
                receiveByDistributor_require(s, i) = ""
           [] Stage(i) = ReceivedByDistributor ->
                \E r \in Address : shipToRetailer_require(s, i, r) = ""
           [] Stage(i) = ShippedToRetailer -> receiveByRetailer_require(s, i) = ""
           [] Stage(i) = ReceivedByRetailer -> sellMedicine_require(s, i) = ""
           [] OTHER -> FALSE
    ELSE CASE Stage(i) = Manufactured -> pack_require(s, i) = ""
           [] Stage(i) = Packed ->
                \E d \in ParticipantArgs : shipToDistributor_p8_require(s, i, d) = ""
           [] Stage(i) = ShippedToDistributor ->
                receiveByDistributor_p8_require(s, i) = ""
           [] Stage(i) = ReceivedByDistributor ->
                \E r \in ParticipantArgs : shipToRetailer_p8_require(s, i, r) = ""
           [] Stage(i) = ShippedToRetailer ->
                receiveByRetailer_p8_require(s, i) = ""
           [] Stage(i) = ReceivedByRetailer -> sell_require(s, i) = ""
           [] OTHER -> FALSE

Staffed == disCtr > 0 /\ retCtr > 0

C33_NextEnabled ==
    Staffed => \A i \in Items :
        Stage(i) < Sold => \E s \in Callers : CanAdvance(s, i)

C33_ReachesSold ==
    \A i \in 1..MaxMedicines : (i \in Items /\ Staffed) ~> (Stage(i) = Sold)

\* C33: no item gets stuck: once a distributor and a retailer are
\* registered, every unsold item has an account whose call moves it to its
\* next stage, and if the custodians keep sending those calls every item is
\* eventually sold.
C33_NoItemStuck == []C33_NextEnabled /\ C33_ReachesSold

\* ---------------------------------------------------------------- C34
ChainIds == DOMAIN productIdIndex \cup 0..MaxChainIds

\* C34: the reverse index of the metadata store agrees with the primary
\* store: findByProductId(c) returns a record exactly when a stored record
\* carries productId c, and then that record; no record is found under two
\* chain ids.
C34_IndexAgrees ==
    /\ \A c \in ChainIds :
          findByProductId(c) # NoProduct => findByProductId(c).productId = c
    /\ \A id \in ProductIds :
          products[id].productId # 0 =>
              findByProductId(products[id].productId) = products[id]
    /\ \A c1, c2 \in ChainIds :
          (findByProductId(c1) # NoProduct /\ findByProductId(c1) = findByProductId(c2))
              => c1 = c2

\* ---------------------------------------------------------------- C35
\* The accounts that list address a among their linked wallets.
Listing(a) == {u \in UserIds : toLowerCase(a) \in Addresses(usersById[u])}

\* C35: the reverse index of the identity store agrees with the primary
\* store: walletIndex maps a to u exactly when a is an entry of u's
\* linkedWallets, so findByWallet(a) returns the account that lists a and
\* isWalletTaken(a) holds exactly for listed addresses.
C35_WalletIndexAgrees ==
    /\ \A a \in DOMAIN walletIndex : Listing(a) = {walletIndex[a]}
    /\ \A u \in UserIds : \A a \in Addresses(usersById[u]) :
          a \in DOMAIN walletIndex /\ walletIndex[a] = u
    /\ \A a \in RawAddresses :
          /\ isWalletTaken(a) <=> Listing(a) # {}
          /\ IF Listing(a) = {} THEN findByWallet(a) = NoUser
             ELSE \E u \in Listing(a) : findByWallet(a) = usersById[u]

\* Two accounts hold every wallet; one of them promoted a wallet it added
\* later, and the last request was refused.
C35_Witness ==
    /\ Len(usersById) = 2
    /\ \E u \in UserIds :
          /\ Len(usersById[u].linkedWallets) = 2
          /\ usersById[u].linkedWallets[2].isPrimary
    /\ \A a \in Wallets : isWalletTaken(a)
    /\ ~res.success

\* ---------------------------------------------------------------- C36
\* C36: a wallet-link proof is bound to the account it was made for: a
\* signature accepted to link a wallet to one account is not accepted
\* again, after the wallet was removed, to link it to another account.
C36_ProofBoundToAccount ==
    \A i, j \in DOMAIN linkRequests :
        (/\ linkRequests[i].status = "linked"
         /\ linkRequests[j].status = "linked"
         /\ linkRequests[i].signature = linkRequests[j].signature)
        => linkRequests[i].userId = linkRequests[j].userId

\* ---------------------------------------------------------------- C37
\* The challenge over the current nonce of the account of wallet b, signed
\* by b, passes the checks of linkWallet.
ChallengeAccepted(b) ==
    LET m == createSignMessage(findByWallet(b).nonce, "link-wallet")
    IN  linkWallet_check(b, Sign(b, m), m) = 0

\* A challenge request for a wallet of an existing account answers with the
\* nonce every wallet of that account is challenged with, and writes nothing.
C37_OneChallenge ==
    \A a \in RawAddresses :
        (isWalletTaken(a) /\ getNonce(a)) =>
            /\ \A b \in Addresses(findByWallet(a)) :
                  /\ findByWallet(b).nonce = res'.nonce
                  /\ ChallengeAccepted(b)
            /\ UNCHANGED identity

\* A successful link or verification draws a nonce for the account of the
\* wallet that signed; the challenge any wallet of that account held before
\* is refused from then on.
C37_RotatedForAll ==
    (res'.success /\ nonceCtr' # nonceCtr /\ Len(usersById') = Len(usersById)) =>
        \E u \in UserIds :
            /\ usersById'[u].nonce = nonceCtr'
            /\ usersById[u].nonce # nonceCtr'
            /\ \A v \in UserIds \ {u} : usersById'[v].nonce = usersById[v].nonce
            /\ \A b \in Addresses(usersById[u]), n \in {usersById[u].nonce} :
                  LET old == createSignMessage(n, "link-wallet")
                  IN  /\ linkWallet_check(b, Sign(b, old), old) = 0
                      /\ (linkWallet_check(b, Sign(b, old), old) # 0)'
                      /\ (findByWallet(b).nonce)' = nonceCtr'

\* C37: the nonce belongs to the account and is shared by its wallets: a
\* challenge request for any wallet of an account returns the account's
\* current nonce, and a successful link or verification by one wallet
\* rotates it, so the challenge issued to another wallet of the account is
\* no longer accepted by linkWallet.
C37_NoncePerAccount == [][C37_OneChallenge /\ C37_RotatedForAll]_vars

\* One account with two wallets whose nonce was rotated twice.
C37_Witness ==
    /\ Len(usersById) = 1
    /\ Len(usersById[1].linkedWallets) = 2
    /\ usersById[1].nonce = 3
    /\ res.success

\* ---------------------------------------------------------------- C38
\* The flows started so far are run by different accounts.
DifferentCallers ==
    \A f, g \in DOMAIN flows : f # g => flows[f].account # flows[g].account

\* The record a flow created is linked, if at all, to an item its own
\* account created.
C38_OwnItem ==
    DifferentCallers =>
    \A f \in DOMAIN flows :
        LET flow == flows[f] IN
        (flow.internalId \in ProductIds /\ products[flow.internalId].productId # 0)
            => Stock(products[flow.internalId].productId).manufacturer = flow.account

\* The link request of a flow is not answered 409.
C38_LinkNotTaken ==
    DifferentCallers =>
    \A f \in DOMAIN flows, t \in Times :
        createHybridProduct_link(f, "ok", t) => reply'.status # 409

\* C38: under any interleaving of two creation flows run by different
\* accounts, each flow links its metadata record to the chain id of the
\* item its own addMedicine transaction created: no flow links its record
\* to the other flow's item, and no flow's link is refused because the
\* other flow took its chain id.
C38_FlowsIsolated == []C38_OwnItem /\ [][C38_LinkNotTaken]_vars

\* ---------------------------------------------------------------- C39
\* C39: every linked metadata record describes an existing ledger item of
\* the same creator: its chain id is the id of an item the ledger holds and
\* its createdBy is that item's manufacturer.
C39_LinkedIsReal ==
    \A id \in ProductIds :
        products[id].productId # 0 =>
            /\ products[id].productId \in Items
            /\ products[id].createdBy = Stock(products[id].productId).manufacturer
====
